---------------------------- MODULE Spec2Model ----------------------------
(***************************************************************************)
(* A model of the core of Swift-SSH: the ANSI interpreter of the terminal  *)
(* panel (ui/terminal_panel.py), the terminal session and the session      *)
(* registry (core/terminal.py), the encrypted profile store                *)
(* (core/profile_manager.py) and the transfer engine (core/scp_manager.py).*)
(* Each component has its own variables, initial condition and next-state  *)
(* relation; a specification per component keeps the components apart.     *)
(***************************************************************************)
EXTENDS Integers, Sequences, FiniteSets, TLC

VARIABLES
    \* ---- TerminalPanel (ANSI interpreter), one terminal tab
    ansi_whole,     \* the output stream as the channel produced it
    ansi_pending,   \* the chunks of it not yet passed to _on_terminal_output
    cur_tags,       \* terminal_states[name]['tags']
    widget_ops,     \* the calls made on the tab's text widget, in order
    ansi_raised,    \* an update_text callback ended in an exception
    \* ---- _handle_sgr_codes called on its own
    sgr_call,       \* a call of _handle_sgr_codes: [op, pre, codes, post]
    \* ---- SSHTerminal, one session
    t_channel,      \* self.channel: 0 for None, else the channel's number
    t_connected,    \* self.connected
    t_running,      \* self.running
    t_threads,      \* self.threads: the pump threads, [kind, pc] each
    t_closed,       \* the channels close() was called on
    t_opened,       \* how many channels invoke_shell has returned
    t_caller,       \* the owner's call in progress: [pc, op, i]
    t_last,         \* the last call that returned: [op, ret]
    t_recv,         \* how many chunks channel.recv has returned; the n-th is chunk n
    t_delivered,    \* the chunks output_callback was called with, in order
    t_queue,        \* self.input_queue
    t_submitted,    \* how many input items were submitted; the n-th is item n
    t_sent,         \* the items channel.send was called with, in order
    t_resized,      \* resize_terminal: [calls, done], done counts channel.resize_pty
    t_callback,     \* whether output_callback is set
    t_eof,          \* the channels the remote end has closed
    \* ---- TerminalManager
    reg_terminals,      \* self.terminals: name -> SSHTerminal (its number)
    terminal_counter,   \* self.terminal_counter
    reg_objs,           \* every SSHTerminal created: "new", "running", "stopped"
    reg_handed,         \* the names returned by create_terminal(name=None)
    reg_last,           \* the last call: [op, name, ret]
    \* ---- ProfileManager (the vault)
    vault_file,     \* the content of profiles.enc, or NoFile
    vault_now,      \* the clock _get_timestamp reads
    vault_saved,    \* the names saved and not deleted since (by calls that returned True)
    vault_clean,    \* nothing but the vault's own successful writes touched the file
    vault_last,     \* the last call: [op, name, input, raised, ret]
    vault_threads,  \* the calls two threads have in progress: [pc, op, name, input, profiles, ret]
    \* ---- SCPManager (the transfer engine)
    xfer_dir,       \* the upload_directory call: [pc, tree, files, i, ret]
    xfer_uploads,   \* the upload_file calls it made: [path, ret, progress] each
    xfer_last,      \* the last top-level call that ended: [op, ret, progress]
    active_transfers, \* SCPManager.active_transfers: id -> [total_size, transferred]
    xfer_task,      \* the upload_file / download_file call followed step by step
    xfer_other,     \* another transfer thread: the id of its call in flight
    xfer_now,       \* int(time.time())
    xfer_cancel,    \* the cancel_transfer call of the client: [pc, id, ret]
    mk_call,        \* a call of _ensure_remote_directory: [pc, depth, fs, ev, res]
    dec_call,       \* the bytes of a channel and their decoding: [stream, pos, out]
    ui_terminals,   \* TerminalPanel.terminals: the names of the open terminals
    ui_widgets,     \* the keys of TerminalPanel.terminal_widgets
    ui_states,      \* the keys of TerminalPanel.terminal_states
    ui_running,     \* the terminals whose session is running
    ui_pump,        \* per terminal, where its pump is in _on_terminal_output
    ui_after,       \* the update_text calls scheduled with parent.after, in order
    ui_main,        \* the UI thread: [pc, name]
    ui_log,         \* what the update_text calls did: [scheduled, raised]
    scan            \* discover_all_local: [pc, net, queued, flight, ready,
                    \*   consumed, cancel, started, callbacks]

ansiVars == <<ansi_whole, ansi_pending, cur_tags, widget_ops, ansi_raised>>
sgrVars == <<sgr_call>>
ioVars == <<t_recv, t_delivered, t_queue, t_submitted, t_sent, t_resized,
           t_callback, t_eof>>
termVars == <<t_channel, t_connected, t_running, t_threads, t_closed,
              t_opened, t_caller, t_last, ioVars>>
regVars == <<reg_terminals, terminal_counter, reg_objs, reg_handed, reg_last>>
vaultVars == <<vault_file, vault_now, vault_saved, vault_clean, vault_last,
               vault_threads>>
loopVars == <<active_transfers, xfer_task, xfer_other, xfer_now, xfer_cancel>>
xferVars == <<xfer_dir, xfer_uploads, xfer_last, loopVars>>
mkdirVars == <<mk_call>>
decVars == <<dec_call>>
uiVars == <<ui_terminals, ui_widgets, ui_states, ui_running, ui_pump,
            ui_after, ui_main, ui_log>>
scanVars == <<scan>>
extVars == <<mkdirVars, decVars, uiVars, scanVars>>
vars == <<ansiVars, sgrVars, termVars, regVars, vaultVars, xferVars, extVars>>

NoCall == [op |-> "none"]

(***************************************************************************)
(* Sequence helpers                                                        *)
(***************************************************************************)
RECURSIVE SeqsUpTo(_, _)
\* All concatenations of at most n members of the set of sequences S.
SeqsUpTo(S, n) ==
    IF n = 0 THEN {<<>>}
    ELSE LET shorter == SeqsUpTo(S, n - 1)
         IN  shorter \cup {s \o p : s \in shorter, p \in S}

\* Whether the sequence lit occurs in s starting at index i.
LitAt(s, i, lit) ==
    /\ i + Len(lit) - 1 <= Len(s)
    /\ \A k \in 1..Len(lit) : s[i + k - 1] = lit[k]

(***************************************************************************)
(* TerminalPanel: the characters of terminal output.  A string is a        *)
(* sequence of one-character strings; ESC is \x1b and BEL is \x07.         *)
(***************************************************************************)
ESC == "ESC"
BEL == "BEL"
Digits == {"0", "1", "2", "3", "4", "5", "6", "7", "8", "9"}
DigitVal(c) ==
    CASE c = "0" -> 0 [] c = "1" -> 1 [] c = "2" -> 2 [] c = "3" -> 3
      [] c = "4" -> 4 [] c = "5" -> 5 [] c = "6" -> 6 [] c = "7" -> 7
      [] c = "8" -> 8 [] c = "9" -> 9

\* [a-zA-Z] of the interpreter's pattern, as far as the model's alphabet goes.
Letters == {"m", "H", "f", "G", "J", "K", "h", "l", "A", "x", "y"}
\* [0-9;?] of the interpreter's pattern.
ParamChars == Digits \cup {";", "?"}

(***************************************************************************)
(* TerminalPanel.__init__: ansi_color_map, fg_colors, bg_colors            *)
(***************************************************************************)
ansi_color_map ==
    [c \in {30, 31, 32, 33, 34, 35, 36, 37, 39,
            90, 91, 92, 93, 94, 95, 96, 97,
            40, 41, 42, 43, 44, 45, 46, 47, 49,
            100, 101, 102, 103, 104, 105, 106, 107,
            1, 2, 4, 5, 7, 8, 22, 24} |->
        CASE c = 30 -> "black" [] c = 31 -> "red" [] c = 32 -> "green"
          [] c = 33 -> "yellow" [] c = 34 -> "blue" [] c = 35 -> "magenta"
          [] c = 36 -> "cyan" [] c = 37 -> "white" [] c = 39 -> "default_fg"
          [] c = 90 -> "bright_black" [] c = 91 -> "bright_red"
          [] c = 92 -> "bright_green" [] c = 93 -> "bright_yellow"
          [] c = 94 -> "bright_blue" [] c = 95 -> "bright_magenta"
          [] c = 96 -> "bright_cyan" [] c = 97 -> "bright_white"
          [] c = 40 -> "bg_black" [] c = 41 -> "bg_red" [] c = 42 -> "bg_green"
          [] c = 43 -> "bg_yellow" [] c = 44 -> "bg_blue"
          [] c = 45 -> "bg_magenta" [] c = 46 -> "bg_cyan"
          [] c = 47 -> "bg_white" [] c = 49 -> "default_bg"
          [] c = 100 -> "bg_bright_black" [] c = 101 -> "bg_bright_red"
          [] c = 102 -> "bg_bright_green" [] c = 103 -> "bg_bright_yellow"
          [] c = 104 -> "bg_bright_blue" [] c = 105 -> "bg_bright_magenta"
          [] c = 106 -> "bg_bright_cyan" [] c = 107 -> "bg_bright_white"
          [] c = 1 -> "bold" [] c = 2 -> "dim" [] c = 4 -> "underline"
          [] c = 5 -> "blink" [] c = 7 -> "reverse" [] c = 8 -> "hidden"
          [] c = 22 -> "normal" [] c = 24 -> "no_underline"]

fg_colors ==
    {k \in DOMAIN ansi_color_map : (30 <= k /\ k <= 37) \/ (90 <= k /\ k <= 97)}
bg_colors ==
    {k \in DOMAIN ansi_color_map : (40 <= k /\ k <= 47) \/ (100 <= k /\ k <= 107)}

FgTags == {ansi_color_map[c] : c \in fg_colors}
BgTags == {ansi_color_map[c] : c \in bg_colors}


(***************************************************************************)
(* TerminalPanel._handle_sgr_codes                                         *)
(***************************************************************************)
\* Mutant of SgrCode: a colour is added next to the colour already there.
SgrCodeAddsColour(tags, code) ==
    IF code = 0 THEN {}
    ELSE IF code \in fg_colors \cup bg_colors THEN tags \cup {ansi_color_map[code]}
    ELSE IF code = 39 THEN tags \ FgTags
    ELSE IF code = 49 THEN tags \ BgTags
    ELSE IF code = 22 THEN tags \ {"bold", "dim"}
    ELSE IF code = 24 THEN tags \ {"underline"}
    ELSE IF code \in DOMAIN ansi_color_map THEN tags \cup {ansi_color_map[code]}
    ELSE tags

\* Mutant of SgrCode: code 22 removes bold and leaves dim.
SgrCodeNormalKeepsDim(tags, code) ==
    IF code = 0 THEN {}
    ELSE IF code \in fg_colors THEN (tags \ FgTags) \cup {ansi_color_map[code]}
    ELSE IF code \in bg_colors THEN (tags \ BgTags) \cup {ansi_color_map[code]}
    ELSE IF code = 39 THEN tags \ FgTags
    ELSE IF code = 49 THEN tags \ BgTags
    ELSE IF code = 22 THEN tags \ {"bold"}
    ELSE IF code = 24 THEN tags \ {"underline"}
    ELSE IF code \in DOMAIN ansi_color_map THEN tags \cup {ansi_color_map[code]}
    ELSE tags

\* One iteration of the while loop: the effect of one code on the tag set.
SgrCode(tags, code) ==
    IF code = 0 THEN {}
    ELSE IF code \in fg_colors THEN (tags \ FgTags) \cup {ansi_color_map[code]}
    ELSE IF code \in bg_colors THEN (tags \ BgTags) \cup {ansi_color_map[code]}
    ELSE IF code = 39 THEN tags \ FgTags
    ELSE IF code = 49 THEN tags \ BgTags
    ELSE IF code \in DOMAIN ansi_color_map THEN
        LET tag == ansi_color_map[code]
        IN  IF tag = "normal" THEN tags \ {"bold", "dim"}
            ELSE IF tag = "no_underline" THEN tags \ {"underline"}
            ELSE tags \cup {tag}
    ELSE tags

RECURSIVE SgrLoop(_, _, _)
\* while i < len(codes): ...; i += 1
SgrLoop(tags, codes, i) ==
    IF i > Len(codes) THEN tags
    ELSE SgrLoop(SgrCode(tags, codes[i]), codes, i + 1)

\* The whole method: the guard on the first code returns before the loop.
HandleSgrCodes(tags, codes) ==
    IF codes = <<>> \/ codes[1] = 0 THEN {}
    ELSE SgrLoop(tags, codes, 1)

(***************************************************************************)
(* TerminalPanel._process_terminal_output: five re.sub calls in a row,     *)
(* each removing the leftmost non-overlapping matches of one pattern.      *)
(***************************************************************************)
RECURSIVE SubModeFrom(_, _, _)
\* re.sub(lit + '[hl]', '', text), scanning from index i.
SubModeFrom(text, lit, i) ==
    IF i > Len(text) THEN <<>>
    ELSE IF /\ LitAt(text, i, lit)
            /\ i + Len(lit) <= Len(text)
            /\ text[i + Len(lit)] \in {"h", "l"}
         THEN SubModeFrom(text, lit, i + Len(lit) + 1)
         ELSE <<text[i]>> \o SubModeFrom(text, lit, i + 1)

SubMode(text, lit) == SubModeFrom(text, lit, 1)

\* The index of the first BEL at or after i, or 0.
RECURSIVE FindBel(_, _)
FindBel(text, i) ==
    IF i > Len(text) THEN 0
    ELSE IF text[i] = BEL THEN i
    ELSE FindBel(text, i + 1)

RECURSIVE SubTitleFrom(_, _)
\* re.sub of the title pattern (ESC ] 0 ; non-BEL run, BEL), from index i.
SubTitleFrom(text, i) ==
    IF i > Len(text) THEN <<>>
    ELSE IF LitAt(text, i, <<ESC, "]", "0", ";">>) /\ FindBel(text, i + 4) > 0
         THEN SubTitleFrom(text, FindBel(text, i + 4) + 1)
         ELSE <<text[i]>> \o SubTitleFrom(text, i + 1)

ProcessTerminalOutput(text) ==
    LET t1 == SubMode(text, <<ESC, "[", "?", "2", "0", "0", "4">>)
        t2 == SubTitleFrom(t1, 1)
        t3 == SubMode(t2, <<ESC, "[", "?", "1", "0", "4", "9">>)
        t4 == SubMode(t3, <<ESC, "[", "?", "1">>)
        t5 == SubMode(t4, <<ESC, "[", "?", "2", "5">>)
    IN  t5

(***************************************************************************)
(* TerminalPanel._parse_and_insert_ansi: ansi_escape_pattern (ESC, '[',     *)
(* any run of digits, ';' and '?', then one letter) and re.split on it.    *)
(***************************************************************************)
RECURSIVE ParamEnd(_, _)
\* The first index at or after i that holds no parameter character.
ParamEnd(s, i) ==
    IF i <= Len(s) /\ s[i] \in ParamChars THEN ParamEnd(s, i + 1) ELSE i

\* A match of the pattern starts at i: the greedy parameter run must be
\* followed by a letter (no shorter run can be, letters are no parameters).
MatchesAt(s, i) ==
    /\ i + 1 <= Len(s)
    /\ s[i] = ESC
    /\ s[i + 1] = "["
    /\ ParamEnd(s, i + 2) <= Len(s)
    /\ s[ParamEnd(s, i + 2)] \in Letters

RECURSIVE NextMatch(_, _)
\* The start of the leftmost match at or after i, or 0.
NextMatch(s, i) ==
    IF i > Len(s) THEN 0
    ELSE IF MatchesAt(s, i) THEN i
    ELSE NextMatch(s, i + 1)

RECURSIVE SplitFrom(_, _)
\* The triples (params_str, command, text_part) of re.split from index i on;
\* i is the start of a match.
SplitFrom(s, i) ==
    LET e == ParamEnd(s, i + 2)
        n == NextMatch(s, e + 1)
        stop == IF n = 0 THEN Len(s) ELSE n - 1
        item == [params_str |-> SubSeq(s, i + 2, e - 1),
                 command |-> s[e],
                 text_part |-> SubSeq(s, e + 1, stop)]
    IN  IF n = 0 THEN <<item>> ELSE <<item>> \o SplitFrom(s, n)

\* parts.pop(0) and the remaining triples.
AnsiSplit(data) ==
    LET n == NextMatch(data, 1)
    IN  IF n = 0 THEN [head |-> data, items |-> <<>>]
        ELSE [head |-> SubSeq(data, 1, n - 1), items |-> SplitFrom(data, n)]

RECURSIVE StrSplit(_, _)
\* params_str.split(';')
StrSplit(s, i) ==
    LET RECURSIVE Semi(_)
        Semi(j) == IF j > Len(s) \/ s[j] = ";" THEN j ELSE Semi(j + 1)
        e == Semi(i)
    IN  IF e > Len(s) THEN <<SubSeq(s, i, Len(s))>>
        ELSE <<SubSeq(s, i, e - 1)>> \o StrSplit(s, e + 1)

RECURSIVE IntOf(_)
\* int(p) for a string of digits.
IntOf(p) ==
    IF p = <<>> THEN 0
    ELSE 10 * IntOf(SubSeq(p, 1, Len(p) - 1)) + DigitVal(p[Len(p)])

\* int(p) raises ValueError on a string holding '?'.
IntRaises(p) == \E k \in 1..Len(p) : p[k] \notin Digits

\* params = [int(p) if p else 0 for p in params_str.split(';')]
ParamsRaise(params_str) ==
    LET ps == StrSplit(params_str, 1)
    IN  \E k \in 1..Len(ps) : IntRaises(ps[k])
ParamsOf(params_str) ==
    LET ps == StrSplit(params_str, 1)
    IN  [k \in 1..Len(ps) |-> IntOf(ps[k])]

(***************************************************************************)
(* TerminalPanel._parse_and_insert_ansi: the dispatch.  The text widget is *)
(* an external object; the model keeps the calls made on it.               *)
(***************************************************************************)
InsertOp(text, tags) == [op |-> "insert", text |-> text, tags |-> tags]
MarkSetOp(line, col) == [op |-> "mark_set", line |-> line, col |-> col]
MarkColOp(col) == [op |-> "mark_set_col", col |-> col]
DeleteOp(from, to) == [op |-> "delete", from |-> from, to |-> to]

\* The widget calls of one matched sequence, before its text_part.
CommandOps(command, params) ==
    IF command = "H" \/ command = "f" THEN
        LET line == IF Len(params) > 0 THEN params[1] ELSE 1
            col == IF Len(params) > 1 THEN params[2] ELSE 1
        IN  <<MarkSetOp(line, col - 1)>>
    ELSE IF command = "J" THEN
        IF params[1] = 2 THEN <<DeleteOp("1.0", "end")>> ELSE <<>>
    ELSE IF command = "K" THEN
        IF params[1] = 0 THEN <<DeleteOp("insert", "insert lineend")>>
        ELSE IF params[1] = 1 THEN <<DeleteOp("insert linestart", "insert")>>
        ELSE IF params[1] = 2
             THEN <<DeleteOp("insert linestart", "insert lineend")>>
        ELSE <<>>
    ELSE IF command = "G" THEN
        LET col == IF Len(params) > 0 THEN params[1] ELSE 1
        IN  <<MarkColOp(col - 1)>>
    ELSE <<>>

\* One iteration of the for loop over the triples of re.split.
AnsiItem(st, item) ==
    IF st.raised THEN st
    ELSE IF ParamsRaise(item.params_str) THEN [st EXCEPT !.raised = TRUE]
    ELSE
        LET params == ParamsOf(item.params_str)
            tags == IF item.command = "m"
                    THEN HandleSgrCodes(st.tags, params)
                    ELSE st.tags
            ops == st.ops \o CommandOps(item.command, params)
        IN  [tags |-> tags,
             ops |-> IF item.text_part # <<>>
                     THEN Append(ops, InsertOp(item.text_part, tags))
                     ELSE ops,
             raised |-> FALSE]

RECURSIVE AnsiItems(_, _, _)
AnsiItems(st, items, i) ==
    IF i > Len(items) THEN st
    ELSE AnsiItems(AnsiItem(st, items[i]), items, i + 1)

\* The method: the text before the first match, then every triple.
ParseAndInsertAnsi(tags, ops, data) ==
    LET parts == AnsiSplit(data)
        first == [tags |-> tags,
                  ops |-> IF parts.head # <<>>
                          THEN Append(ops, InsertOp(parts.head, tags))
                          ELSE ops,
                  raised |-> FALSE]
    IN  AnsiItems(first, parts.items, 1)

(***************************************************************************)
(* TerminalPanel._on_terminal_output, with the update_text callback it     *)
(* schedules: one chunk of output is cleaned, parsed and inserted.         *)
(***************************************************************************)
OnTerminalOutput ==
    /\ ansi_pending # <<>>
    /\ LET data == Head(ansi_pending)
           processed_data == ProcessTerminalOutput(data)
           r == ParseAndInsertAnsi(cur_tags, widget_ops, processed_data)
       IN  /\ cur_tags' = r.tags
           /\ widget_ops' = r.ops
           /\ ansi_raised' = (ansi_raised \/ r.raised)
    /\ ansi_pending' = Tail(ansi_pending)
    /\ UNCHANGED <<ansi_whole, sgrVars, termVars, regVars, vaultVars, xferVars, extVars>>

(***************************************************************************)
(* The output streams the interpreter is run on: concatenations of a few   *)
(* pieces, cut into two chunks at any position or delivered whole.         *)
(***************************************************************************)
MaxPieces == 3

AnsiPieces ==
    { <<"x">>,
      <<ESC, "[", "3", "1", "m">>,
      <<ESC, "[", "0", "m">>,
      <<ESC, "[", "1", ";", "3", "2", "m">>,
      <<ESC, "[", "2", "2", "m">>,
      <<ESC, "[", "2", "J">>,
      <<ESC, "[", "H">>,
      <<ESC, "[", "?", "2", "5", "l">>,
      <<ESC, "[", "?", "7", "h">>,
      <<ESC, "[", "2", "A">> }

AnsiStreams == SeqsUpTo(AnsiPieces, MaxPieces)

\* The chunkings of a stream: whole, or cut in two at position cut.
Chunkings(whole) ==
    {<<whole>>} \cup
    {<<SubSeq(whole, 1, cut), SubSeq(whole, cut + 1, Len(whole))>> :
        cut \in 1..(Len(whole) - 1)}

AnsiInit ==
    /\ ansi_whole \in AnsiStreams
    /\ ansi_pending \in Chunkings(ansi_whole)
    /\ cur_tags = {}
    /\ widget_ops = <<>>
    /\ ansi_raised = FALSE

AnsiIdle ==
    /\ ansi_whole = <<>>
    /\ ansi_pending = <<>>
    /\ cur_tags = {}
    /\ widget_ops = <<>>
    /\ ansi_raised = FALSE

(***************************************************************************)
(* _handle_sgr_codes on its own: any parameter list on any prior tag set.  *)
(***************************************************************************)
MaxCodes == 3
SgrCodes == {0, 1, 22, 24, 31, 32, 97, 39, 44, 101, 49, 99}
SgrPriorTags == SUBSET {"red", "bg_blue", "bold", "dim", "underline"}

SgrLists == UNION {[1..n -> SgrCodes] : n \in 1..MaxCodes}

\* A call not yet made: the prior tag set and the parameter list are drawn.
SgrInit ==
    \E pre \in SgrPriorTags, codes \in SgrLists :
        sgr_call = [op |-> "pending", pre |-> pre, codes |-> codes, post |-> {}]

SgrIdle == sgr_call = NoCall

HandleSgrCall ==
    /\ sgr_call.op = "pending"
    /\ sgr_call' = [sgr_call EXCEPT !.op = "done",
                       !.post = HandleSgrCodes(sgr_call.pre, sgr_call.codes)]
    /\ UNCHANGED <<ansiVars, termVars, regVars, vaultVars, xferVars, extVars>>

(***************************************************************************)
(* SSHTerminal: one session, its owner (the thread that calls              *)
(* start_terminal and stop_terminal) and its pump threads.                 *)
(***************************************************************************)
MaxStarts == 2
MaxChunks == 3
MaxItems == 2
MaxResizes == 1

Idle == [pc |-> "idle", op |-> "none", i |-> 0]
Returned(op, ret) == [op |-> op, ret |-> ret]

\* SSHTerminal.__init__
TermInit ==
    /\ t_channel = 0
    /\ t_connected = FALSE
    /\ t_running = FALSE
    /\ t_threads = <<>>
    /\ t_closed = {}
    /\ t_opened = 0
    /\ t_caller = Idle
    /\ t_last = Returned("none", TRUE)
    /\ t_recv = 0
    /\ t_delivered = <<>>
    /\ t_queue = <<>>
    /\ t_submitted = 0
    /\ t_sent = <<>>
    /\ t_resized = [calls |-> 0, done |-> 0]
    /\ t_callback = FALSE
    /\ t_eof = {}

\* A pump inside a call that can last as long as it likes: the consumer's
\* output_callback.  thread.join(timeout=1) gives up on such a thread.
Blocked(th) == th.pc = "callback"

\* thread.join(timeout=1) returns: the thread has ended, or the timeout has
\* passed.  A pump that is not blocked ends its iteration within the second.
JoinReturns(th) == th.pc = "dead" \/ Blocked(th)

\* Mutant of StopFlags: connected is left as it is.
StopFlagsRunningOnly ==
    /\ t_running' = FALSE
    /\ UNCHANGED t_connected

\* stop_terminal, first statements: self.running = False; self.connected = False
StopFlags ==
    /\ t_running' = FALSE
    /\ t_connected' = FALSE

\* stop_terminal called by the owner.
StopTerminalBegin ==
    /\ t_caller.pc = "idle"
    /\ StopFlags
    /\ t_caller' = [pc |-> "stop_join", op |-> "stop", i |-> 1]
    /\ UNCHANGED <<t_channel, t_threads, t_closed, t_opened, t_last>>
    /\ UNCHANGED ioVars
    /\ UNCHANGED <<ansiVars, sgrVars, regVars, vaultVars, xferVars, extVars>>

\* for thread in self.threads: if thread.is_alive(): thread.join(timeout=1)
StopTerminalJoin ==
    /\ t_caller.pc = "stop_join"
    /\ t_caller.i <= Len(t_threads)
    /\ JoinReturns(t_threads[t_caller.i])
    /\ t_caller' = [t_caller EXCEPT !.i = @ + 1]
    /\ UNCHANGED <<t_channel, t_connected, t_running, t_threads, t_closed,
                   t_opened, t_last>>
    /\ UNCHANGED ioVars
    /\ UNCHANGED <<ansiVars, sgrVars, regVars, vaultVars, xferVars, extVars>>

\* Mutant of ChannelAfterClose: the closed channel stays in self.channel.
ChannelKept == t_channel

\* self.channel = None
ChannelAfterClose == 0

\* if self.channel: self.channel.close(); self.channel = None -- and return,
\* to the owner or into start_terminal.
StopTerminalClose ==
    /\ t_caller.pc = "stop_join"
    /\ t_caller.i > Len(t_threads)
    /\ t_closed' = IF t_channel # 0 THEN t_closed \cup {t_channel} ELSE t_closed
    /\ t_channel' = ChannelAfterClose
    /\ IF t_caller.op = "stop"
       THEN /\ t_caller' = Idle
            /\ t_last' = Returned("stop", TRUE)
       ELSE /\ t_caller' = [t_caller EXCEPT !.pc = "open"]
            /\ UNCHANGED t_last
    /\ UNCHANGED <<t_connected, t_running, t_threads, t_opened>>
    /\ UNCHANGED ioVars
    /\ UNCHANGED <<ansiVars, sgrVars, regVars, vaultVars, xferVars, extVars>>

\* start_terminal called by the owner: if self.connected: self.stop_terminal()
StartTerminalBegin ==
    /\ t_caller.pc = "idle"
    /\ t_opened < MaxStarts
    /\ IF t_connected
       THEN /\ StopFlags
            /\ t_caller' = [pc |-> "stop_join", op |-> "start", i |-> 1]
       ELSE /\ t_caller' = [pc |-> "open", op |-> "start", i |-> 0]
            /\ UNCHANGED <<t_running, t_connected>>
    /\ UNCHANGED <<t_channel, t_threads, t_closed, t_opened, t_last>>
    /\ UNCHANGED ioVars
    /\ UNCHANGED <<ansiVars, sgrVars, regVars, vaultVars, xferVars, extVars>>

\* _start_threads: the output pump and the input pump, appended to threads.
StartThreads(threads) ==
    threads \o <<[kind |-> "out", pc |-> "check", data |-> 0],
                 [kind |-> "in", pc |-> "check", data |-> 0]>>

\* invoke_shell returns a channel: the flags are set and the pumps started.
StartTerminalOpen ==
    /\ t_caller.pc = "open"
    /\ t_opened' = t_opened + 1
    /\ t_channel' = t_opened + 1
    /\ t_connected' = TRUE
    /\ t_running' = TRUE
    /\ t_threads' = StartThreads(t_threads)
    /\ t_caller' = Idle
    /\ t_last' = Returned("start", TRUE)
    /\ UNCHANGED t_closed
    /\ UNCHANGED ioVars
    /\ UNCHANGED <<ansiVars, sgrVars, regVars, vaultVars, xferVars, extVars>>

\* invoke_shell raises: the except branch returns False.
StartTerminalFails ==
    /\ t_caller.pc = "open"
    /\ t_caller' = Idle
    /\ t_last' = Returned("start", FALSE)
    /\ UNCHANGED <<t_channel, t_connected, t_running, t_threads, t_closed,
                   t_opened>>
    /\ UNCHANGED ioVars
    /\ UNCHANGED <<ansiVars, sgrVars, regVars, vaultVars, xferVars, extVars>>

PumpStep(k, pc) ==
    /\ t_threads' = [t_threads EXCEPT ![k].pc = pc]
    /\ UNCHANGED <<t_channel, t_connected, t_running, t_closed, t_opened,
                   t_caller, t_last>>
    /\ UNCHANGED ioVars
    /\ UNCHANGED <<ansiVars, sgrVars, regVars, vaultVars, xferVars, extVars>>

\* _monitor_output: while self.running and self.connected and self.channel
MonitorOutputCheck(k) ==
    /\ t_threads[k].kind = "out"
    /\ t_threads[k].pc = "check"
    /\ IF t_running /\ t_connected /\ t_channel # 0
       THEN PumpStep(k, "poll")
       ELSE PumpStep(k, "dead")

\* The loop body: self.channel.recv_ready() raises AttributeError when the
\* channel was set to None (caught: break); a channel closed here or by the
\* remote end has nothing ready; otherwise either nothing is ready (sleep, next iteration) or
\* self.channel.recv returns the next chunk, which is put on output_queue.
MonitorOutputPoll(k) ==
    /\ t_threads[k].kind = "out"
    /\ t_threads[k].pc = "poll"
    /\ IF t_channel = 0 THEN PumpStep(k, "dead")
       ELSE \/ PumpStep(k, "check")
            \/ /\ t_channel \notin t_closed \cup t_eof
               /\ t_recv < MaxChunks
               /\ t_recv' = t_recv + 1
               /\ t_threads' = [t_threads EXCEPT ![k].pc = "recvd",
                                                 ![k].data = t_recv + 1]
               /\ UNCHANGED <<t_channel, t_connected, t_running, t_closed,
                              t_opened, t_caller, t_last>>
               /\ UNCHANGED <<t_delivered, t_queue, t_submitted, t_sent, t_resized,
                   t_callback, t_eof>>
               /\ UNCHANGED <<ansiVars, sgrVars, regVars, vaultVars, xferVars, extVars>>

\* if self.output_callback: self.output_callback(data) -- the call is made;
\* with no callback set the iteration ends with the sleep.
MonitorOutputCallback(k) ==
    /\ t_threads[k].kind = "out"
    /\ t_threads[k].pc = "recvd"
    /\ IF t_callback
       THEN /\ t_delivered' = Append(t_delivered, t_threads[k].data)
            /\ t_threads' = [t_threads EXCEPT ![k].pc = "callback"]
       ELSE /\ t_threads' = [t_threads EXCEPT ![k].pc = "check"]
            /\ UNCHANGED t_delivered
    /\ UNCHANGED <<t_channel, t_connected, t_running, t_closed, t_opened,
                   t_caller, t_last>>
    /\ UNCHANGED <<t_recv, t_queue, t_submitted, t_sent, t_resized,
                   t_callback, t_eof>>
    /\ UNCHANGED <<ansiVars, sgrVars, regVars, vaultVars, xferVars, extVars>>

\* output_callback returns; time.sleep(0.01); next iteration.
MonitorOutputDelivered(k) ==
    /\ t_threads[k].kind = "out"
    /\ t_threads[k].pc = "callback"
    /\ PumpStep(k, "check")

\* recv_ready or recv raises on a channel (a socket error): except
\* Exception: print, break.  The thread ends; nothing else is assigned.
MonitorOutputError(k) ==
    /\ t_threads[k].kind = "out"
    /\ t_threads[k].pc = "poll"
    /\ t_channel # 0
    /\ t_threads' = [t_threads EXCEPT ![k].pc = "dead", ![k].data = -1]
    /\ UNCHANGED <<t_channel, t_connected, t_running, t_closed, t_opened,
                   t_caller, t_last>>
    /\ UNCHANGED ioVars
    /\ UNCHANGED <<ansiVars, sgrVars, regVars, vaultVars, xferVars, extVars>>

\* output_callback raises: the call is inside the try of the iteration, so
\* the same except branch prints and breaks.
MonitorOutputCallbackRaises(k) ==
    /\ t_threads[k].kind = "out"
    /\ t_threads[k].pc = "callback"
    /\ t_threads' = [t_threads EXCEPT ![k].pc = "dead", ![k].data = -2]
    /\ UNCHANGED <<t_channel, t_connected, t_running, t_closed, t_opened,
                   t_caller, t_last>>
    /\ UNCHANGED ioVars
    /\ UNCHANGED <<ansiVars, sgrVars, regVars, vaultVars, xferVars, extVars>>

\* The remote end closes the session's channel (the remote shell exits).
RemoteClose ==
    /\ t_channel # 0
    /\ t_channel \notin t_closed \cup t_eof
    /\ t_eof' = t_eof \cup {t_channel}
    /\ UNCHANGED <<t_channel, t_connected, t_running, t_threads, t_closed,
                   t_opened, t_caller, t_last>>
    /\ UNCHANGED <<t_recv, t_delivered, t_queue, t_submitted, t_sent, t_resized,
                   t_callback>>
    /\ UNCHANGED <<ansiVars, sgrVars, regVars, vaultVars, xferVars, extVars>>

\* _process_input: while self.running -- the loop ends once running is
\* false; an iteration that finds the queue empty only sleeps.
ProcessInputExit(k) ==
    /\ t_threads[k].kind = "in"
    /\ t_threads[k].pc = "check"
    /\ ~t_running
    /\ PumpStep(k, "dead")

\* if not self.input_queue.empty(): data = self.input_queue.get(timeout=0.1)
ProcessInputGet(k) ==
    /\ t_threads[k].kind = "in"
    /\ t_threads[k].pc = "check"
    /\ t_running
    /\ t_queue # <<>>
    /\ t_queue' = Tail(t_queue)
    /\ t_threads' = [t_threads EXCEPT ![k].pc = "send", ![k].data = Head(t_queue)]
    /\ UNCHANGED <<t_channel, t_connected, t_running, t_closed, t_opened,
                   t_caller, t_last>>
    /\ UNCHANGED <<t_recv, t_delivered, t_submitted, t_sent, t_resized,
                   t_callback, t_eof>>
    /\ UNCHANGED <<ansiVars, sgrVars, regVars, vaultVars, xferVars, extVars>>

\* Mutant of SendInput: the item is sent whatever the session's state.
SendInputAlways(sent, data) == Append(sent, data)

\* send_input(data): if self.connected and self.channel: channel.send(data);
\* an exception of send (the channel is closed) is caught and printed.
SendInput(sent, data) ==
    IF t_connected /\ t_channel # 0 /\ t_channel \notin t_closed
    THEN Append(sent, data)
    ELSE sent

\* self.send_input(data) in the input pump, and the next iteration.
ProcessInputSend(k) ==
    /\ t_threads[k].kind = "in"
    /\ t_threads[k].pc = "send"
    /\ t_sent' = SendInput(t_sent, t_threads[k].data)
    /\ t_threads' = [t_threads EXCEPT ![k].pc = "check"]
    /\ UNCHANGED <<t_channel, t_connected, t_running, t_closed, t_opened,
                   t_caller, t_last>>
    /\ UNCHANGED <<t_recv, t_delivered, t_queue, t_submitted, t_resized,
                   t_callback, t_eof>>
    /\ UNCHANGED <<ansiVars, sgrVars, regVars, vaultVars, xferVars, extVars>>

\* send_input(data) called by the owner of the session, as the key handlers
\* of the terminal panel do.
SendInputCall(raises) ==
    /\ t_caller.pc = "idle"
    /\ t_submitted < MaxItems
    /\ t_submitted' = t_submitted + 1
    /\ t_sent' = IF raises /\ t_connected /\ t_channel # 0 THEN t_sent
                 ELSE SendInput(t_sent, t_submitted + 1)
    /\ UNCHANGED <<t_channel, t_connected, t_running, t_threads, t_closed,
                   t_opened, t_caller, t_last>>
    /\ UNCHANGED <<t_recv, t_delivered, t_queue, t_resized,
                   t_callback, t_eof>>
    /\ UNCHANGED <<ansiVars, sgrVars, regVars, vaultVars, xferVars, extVars>>

\* resize_terminal(cols, rows): if self.connected and self.channel:
\* channel.resize_pty(...); an exception of resize_pty is caught and printed.
ResizeTerminal(done, raises) ==
    IF t_connected /\ t_channel # 0 /\ ~raises THEN done + 1 ELSE done

\* resize_terminal called by the owner of the session.
ResizeTerminalCall(raises) ==
    /\ t_caller.pc = "idle"
    /\ t_resized.calls < MaxResizes
    /\ t_resized' = [calls |-> t_resized.calls + 1,
                     done |-> ResizeTerminal(t_resized.done, raises)]
    /\ UNCHANGED <<t_channel, t_connected, t_running, t_threads, t_closed,
                   t_opened, t_caller, t_last>>
    /\ UNCHANGED <<t_recv, t_delivered, t_queue, t_submitted, t_sent,
                   t_callback, t_eof>>
    /\ UNCHANGED <<ansiVars, sgrVars, regVars, vaultVars, xferVars, extVars>>

\* set_output_callback(callback), called by the consumer of the output.
SetOutputCallback ==
    /\ ~t_callback
    /\ t_callback' = TRUE
    /\ UNCHANGED <<t_channel, t_connected, t_running, t_threads, t_closed,
                   t_opened, t_caller, t_last>>
    /\ UNCHANGED <<t_recv, t_delivered, t_queue, t_submitted, t_sent, t_resized,
                   t_eof>>
    /\ UNCHANGED <<ansiVars, sgrVars, regVars, vaultVars, xferVars, extVars>>

\* An item is placed in the session's input queue: input_queue.put(data).
InputQueuePut ==
    /\ t_submitted < MaxItems
    /\ t_submitted' = t_submitted + 1
    /\ t_queue' = Append(t_queue, t_submitted + 1)
    /\ UNCHANGED <<t_channel, t_connected, t_running, t_threads, t_closed,
                   t_opened, t_caller, t_last>>
    /\ UNCHANGED <<t_recv, t_delivered, t_sent, t_resized,
                   t_callback, t_eof>>
    /\ UNCHANGED <<ansiVars, sgrVars, regVars, vaultVars, xferVars, extVars>>

\* The owner's calls and the pumps of a session whose output has no consumer.
NextTermCore ==
    \/ StartTerminalBegin
    \/ StartTerminalOpen
    \/ StartTerminalFails
    \/ StopTerminalBegin
    \/ StopTerminalJoin
    \/ StopTerminalClose
    \/ \E k \in 1..Len(t_threads) : MonitorOutputCheck(k)
    \/ \E k \in 1..Len(t_threads) : MonitorOutputPoll(k)
    \/ \E k \in 1..Len(t_threads) : MonitorOutputCallback(k)
    \/ \E k \in 1..Len(t_threads) : ProcessInputExit(k)

\* A session to which no input is submitted: its input queue stays empty.
NextTerm ==
    \/ NextTermCore
    \/ \E k \in 1..Len(t_threads) : MonitorOutputDelivered(k)
    \/ SetOutputCallback

\* A session whose channel and whose consumer can fail.
NextTermFaults ==
    \/ NextTerm
    \/ \E k \in 1..Len(t_threads) : MonitorOutputError(k)
    \/ \E k \in 1..Len(t_threads) : MonitorOutputCallbackRaises(k)
    \/ RemoteClose

\* The pumps are threads of their own: each goes on running, and the
\* consumer's callback returns.
PumpsRun ==
    /\ WF_vars(\E k \in 1..Len(t_threads) : MonitorOutputCheck(k))
    /\ WF_vars(\E k \in 1..Len(t_threads) : MonitorOutputPoll(k))
    /\ WF_vars(\E k \in 1..Len(t_threads) : MonitorOutputCallback(k))
    /\ WF_vars(\E k \in 1..Len(t_threads) : MonitorOutputDelivered(k))
    /\ WF_vars(\E k \in 1..Len(t_threads) : ProcessInputExit(k))

\* A session whose owner sends input and resizes; nothing is queued and no
\* consumer has registered for its output.
NextTermCalls ==
    \/ NextTermCore
    \/ \E raises \in BOOLEAN : SendInputCall(raises)
    \/ \E raises \in BOOLEAN : ResizeTerminalCall(raises)

\* A session with input: items are submitted by send_input and through the
\* input queue.
NextTermInput ==
    \/ NextTerm
    \/ \E raises \in BOOLEAN : SendInputCall(raises)
    \/ InputQueuePut
    \/ \E k \in 1..Len(t_threads) : ProcessInputGet(k)
    \/ \E k \in 1..Len(t_threads) : ProcessInputSend(k)

(***************************************************************************)
(* TerminalManager: the registry of sessions.  A name is a pair: the       *)
(* default name f"Terminal {n}" is <<"Terminal", n>>.                      *)
(***************************************************************************)
MaxCreates == 3

TerminalName(n) == <<"Terminal", n>>
NoName == <<"None", 0>>
\* The names a caller passes explicitly; one has the form of a default name.
ExplicitNames == {<<"dev", 0>>, TerminalName(2)}
RegNames == ExplicitNames \cup {TerminalName(n) : n \in 1..(MaxCreates + 1)}

\* TerminalManager.__init__
RegInit ==
    /\ reg_terminals = <<>>
    /\ terminal_counter = 0
    /\ reg_objs = <<>>
    /\ reg_handed = <<>>
    /\ reg_last = [op |-> "none", name |-> NoName, ret |-> TRUE]

\* Mutant of NextCounter: the number is taken from the registry's size.
NextCounterFromSize(counter, terminals) == Cardinality(DOMAIN terminals) + 1

\* self.terminal_counter += 1
NextCounter(counter, terminals) == counter + 1

\* self.terminals[name] = terminal
RegPut(terminals, name, obj) ==
    [n \in DOMAIN terminals \cup {name} |->
        IF n = name THEN obj ELSE terminals[n]]

\* del self.terminals[name]
RegDel(terminals, name) ==
    [n \in DOMAIN terminals \ {name} |-> terminals[n]]

\* Mutant of RegStop: the session is not stopped.
RegStopSkipped(objs, terminal) == objs

\* self.terminals[name].stop_terminal() / terminal.stop_terminal()
RegStop(objs, terminal) == [objs EXCEPT ![terminal] = "stopped"]

\* for terminal in self.terminals.values(): terminal.stop_terminal()
RECURSIVE RegStopAll(_, _)
RegStopAll(objs, terminals) ==
    IF terminals = {} THEN objs
    ELSE LET terminal == CHOOSE t \in terminals : TRUE
         IN  RegStopAll(RegStop(objs, terminal), terminals \ {terminal})

\* create_terminal(ssh_client, name)
CreateTerminal(name) ==
    /\ Len(reg_objs) < MaxCreates
    /\ LET counter == IF name = NoName
                      THEN NextCounter(terminal_counter, reg_terminals)
                      ELSE terminal_counter
           nm == IF name = NoName THEN TerminalName(counter) ELSE name
           terminal == Len(reg_objs) + 1
       IN  /\ terminal_counter' = counter
           /\ reg_objs' = Append(reg_objs, "new")
           /\ reg_terminals' = RegPut(reg_terminals, nm, terminal)
           /\ reg_handed' = IF name = NoName THEN Append(reg_handed, nm)
                            ELSE reg_handed
           /\ reg_last' = [op |-> "create", name |-> nm, ret |-> TRUE]
    /\ UNCHANGED <<ansiVars, sgrVars, termVars, vaultVars, xferVars, extVars>>

\* get_terminal(name).start_terminal(), as add_terminal does after a create.
RegStartTerminal(name) ==
    /\ name \in DOMAIN reg_terminals
    /\ reg_objs[reg_terminals[name]] # "running"
    /\ reg_objs' = [reg_objs EXCEPT ![reg_terminals[name]] = "running"]
    /\ reg_last' = [op |-> "start", name |-> name, ret |-> TRUE]
    /\ UNCHANGED <<reg_terminals, terminal_counter, reg_handed>>
    /\ UNCHANGED <<ansiVars, sgrVars, termVars, vaultVars, xferVars, extVars>>

\* remove_terminal(name)
RemoveTerminal(name) ==
    /\ IF name \in DOMAIN reg_terminals
       THEN /\ reg_objs' = RegStop(reg_objs, reg_terminals[name])
            /\ reg_terminals' = RegDel(reg_terminals, name)
            /\ reg_last' = [op |-> "remove", name |-> name, ret |-> TRUE]
       ELSE /\ reg_last' = [op |-> "remove", name |-> name, ret |-> FALSE]
            /\ UNCHANGED <<reg_objs, reg_terminals>>
    /\ UNCHANGED <<terminal_counter, reg_handed>>
    /\ UNCHANGED <<ansiVars, sgrVars, termVars, vaultVars, xferVars, extVars>>

\* close_all_terminals()
CloseAllTerminals ==
    /\ reg_objs' = RegStopAll(reg_objs,
                              {reg_terminals[n] : n \in DOMAIN reg_terminals})
    /\ reg_terminals' = <<>>
    /\ reg_last' = [op |-> "close_all", name |-> NoName, ret |-> TRUE]
    /\ UNCHANGED <<terminal_counter, reg_handed>>
    /\ UNCHANGED <<ansiVars, sgrVars, termVars, vaultVars, xferVars, extVars>>

NextReg ==
    \/ \E name \in ExplicitNames \cup {NoName} : CreateTerminal(name)
    \/ \E name \in RegNames : RegStartTerminal(name)
    \/ \E name \in RegNames : RemoveTerminal(name)
    \/ CloseAllTerminals

(***************************************************************************)
(* ProfileManager: the encrypted profile store.  Byte strings are records  *)
(* that say how they were made: a str, its encoding, a Fernet token, a     *)
(* base64 text, a JSON document.  A conversion is undone only by its own   *)
(* inverse, and a Fernet token only under its key and if no byte of it was *)
(* changed.                                                                *)
(***************************************************************************)
MaxTicks == 1

Str(v) == [kind |-> "str", of |-> v]
\* str.encode() and bytes.decode()
Encode(s) == [kind |-> "bytes", of |-> s]
Decode(b) == IF b.kind = "bytes" THEN [ok |-> TRUE, value |-> b.of]
             ELSE [ok |-> FALSE, value |-> b]

\* self.key, generated once by _init_encryption_key
VaultKey == "key.enc"

\* Fernet(key).encrypt(data) and Fernet(key).decrypt(token): decrypt raises
\* InvalidToken unless the token was made under the key and is unchanged.
FernetEncrypt(key, data) ==
    [kind |-> "fernet", key |-> key, data |-> data, intact |-> TRUE]
FernetDecrypt(key, token) ==
    IF token.kind = "fernet" /\ token.key = key /\ token.intact
    THEN [ok |-> TRUE, value |-> token.data]
    ELSE [ok |-> FALSE, value |-> token]

\* base64.b64encode(x).decode() and base64.b64decode(text)
B64Encode(x) == [kind |-> "b64", of |-> x]
B64Decode(t) == IF t.kind = "b64" THEN [ok |-> TRUE, value |-> t.of]
                ELSE [ok |-> FALSE, value |-> t]

\* json.dumps(profiles, indent=2).encode() and json.loads(data.decode())
JsonDumps(profiles) == [kind |-> "json", doc |-> profiles]
JsonLoads(data) == IF data.kind = "json" THEN [ok |-> TRUE, value |-> data.doc]
                   ELSE [ok |-> FALSE, value |-> <<>>]

NoFile == [kind |-> "nofile"]
\* What a write that failed after open(..., 'wb') leaves: a truncated file.
Truncated == [kind |-> "truncated"]

\* None, as the value of last_used
None == 0

\* A dict keeps its keys in insertion order: a sequence of entries, keyed by
\* the entry's name.
DictHas(profiles, name) == \E k \in 1..Len(profiles) : profiles[k].name = name
DictGet(profiles, name) ==
    profiles[CHOOSE k \in 1..Len(profiles) : profiles[k].name = name]
DictKeys(profiles) == [k \in 1..Len(profiles) |-> profiles[k].name]

\* Mutant of DictPut: the entry is appended also when the name is present.
DictPutAppend(profiles, name, entry) == Append(profiles, entry)

\* profiles[name] = entry
DictPut(profiles, name, entry) ==
    IF DictHas(profiles, name)
    THEN [k \in 1..Len(profiles) |->
            IF profiles[k].name = name THEN entry ELSE profiles[k]]
    ELSE Append(profiles, entry)

\* del profiles[name]
DictDel(profiles, name) ==
    LET RECURSIVE Drop(_)
        Drop(k) == IF k > Len(profiles) THEN <<>>
                   ELSE IF profiles[k].name = name THEN Drop(k + 1)
                   ELSE <<profiles[k]>> \o Drop(k + 1)
    IN  Drop(1)

\* Mutant of LoadProfiles: no try/except around the read and the decryption.
LoadProfilesNoCatch(file) ==
    IF file = NoFile THEN [raised |-> FALSE, value |-> <<>>]
    ELSE LET dec == FernetDecrypt(VaultKey, file)
             doc == JsonLoads(dec.value)
         IN  IF dec.ok /\ doc.ok THEN [raised |-> FALSE, value |-> doc.value]
             ELSE [raised |-> TRUE, value |-> <<>>]

\* load_profiles(): a missing file, or any exception, gives the empty dict.
LoadProfiles(file) ==
    IF file = NoFile THEN [raised |-> FALSE, value |-> <<>>]
    ELSE LET dec == FernetDecrypt(VaultKey, file)
             doc == IF dec.ok THEN JsonLoads(dec.value)
                    ELSE [ok |-> FALSE, value |-> <<>>]
         IN  IF dec.ok /\ doc.ok THEN [raised |-> FALSE, value |-> doc.value]
             ELSE [raised |-> FALSE, value |-> <<>>]

\* Mutant of EncryptPassword: the password is stored as it was given.
StorePasswordPlain(password) == password

\* base64.b64encode(self.cipher.encrypt(password.encode())).decode()
EncryptPassword(password) ==
    B64Encode(FernetEncrypt(VaultKey, Encode(password)))

\* The try block of get_profile: the stored password decoded and decrypted.
DecryptPassword(stored) ==
    LET raw == B64Decode(stored)
        dec == IF raw.ok THEN FernetDecrypt(VaultKey, raw.value)
               ELSE [ok |-> FALSE, value |-> stored]
        txt == IF dec.ok THEN Decode(dec.value)
               ELSE [ok |-> FALSE, value |-> stored]
    IN  txt

NotFound == [found |-> FALSE]

\* Mutant of DecryptFailed: the exception leaves get_profile.
DecryptFailedRaises == [raised |-> TRUE, value |-> NotFound]

\* except Exception: print(...); return None
DecryptFailed == [raised |-> FALSE, value |-> NotFound]

\* get_profile(name): [raised, value], value NotFound for None.
GetProfile(file, name) ==
    LET loaded == LoadProfiles(file)
        profiles == loaded.value
    IN  IF loaded.raised THEN [raised |-> TRUE, value |-> NotFound]
        ELSE IF ~DictHas(profiles, name)
        THEN [raised |-> FALSE, value |-> NotFound]
        ELSE LET profile == DictGet(profiles, name)
                 pw == DecryptPassword(profile.password)
             IN  IF pw.ok
                 THEN [raised |-> FALSE,
                       value |-> [found |-> TRUE,
                                  profile |-> [profile EXCEPT !.password = pw.value]]]
                 ELSE DecryptFailed

\* list_profiles(): [raised, value]
ListProfiles(file) ==
    LET loaded == LoadProfiles(file)
    IN  [raised |-> loaded.raised, value |-> DictKeys(loaded.value)]

\* _save_profiles(profiles): the file after the call.  open() may fail (the
\* file is left as it was) and the write may fail after the file was
\* truncated; both raise.
WriteOutcomes == {"ok", "open_fails", "write_fails"}
SaveProfiles(file, profiles, wr) ==
    IF wr = "ok" THEN FernetEncrypt(VaultKey, JsonDumps(profiles))
    ELSE IF wr = "open_fails" THEN file
    ELSE Truncated

\* The arguments of save_profile besides the name.
ProfileInputs ==
    { [host |-> "h1", username |-> "u1", password |-> Str("s1"),
       port |-> 22, description |-> ""],
      [host |-> "h2", username |-> "u2", password |-> Str("s2"),
       port |-> 2222, description |-> "d"] }
VaultNames == {"a", "b"}
NoInput == [host |-> "", username |-> "", password |-> Str(""),
            port |-> 0, description |-> ""]

\* Mutant of PriorLastUsed: a save always starts from null.
PriorLastUsedDropped(profiles, name) == None

\* profiles.get(name, {}).get("last_used")
PriorLastUsed(profiles, name) ==
    IF DictHas(profiles, name) THEN DictGet(profiles, name).last_used ELSE None

VaultCall(op, name, input, raised, ret) ==
    [op |-> op, name |-> name, input |-> input, raised |-> raised, ret |-> ret]

\* The threads that call the vault at the same time, and a thread that has
\* no call in progress.
ConcThreads == {1, 2}
ConcIdle == [pc |-> "idle", op |-> "none", name |-> "", input |-> NoInput,
             profiles |-> <<>>, ret |-> FALSE]

\* ProfileManager.__init__ on an empty config directory.
VaultInit ==
    /\ vault_threads = [t \in ConcThreads |-> ConcIdle]
    /\ vault_file = NoFile
    /\ vault_now = 1
    /\ vault_saved = {}
    /\ vault_clean = TRUE
    /\ vault_last = VaultCall("none", "", NoInput, FALSE, FALSE)

VaultFrame ==
    UNCHANGED <<ansiVars, sgrVars, termVars, regVars, xferVars, extVars,
              vault_threads>>

\* The dict save_profile builds for the profile (lines 55 to 70).
ProfileData(profiles, name, input, now) ==
    [name |-> name,
     host |-> input.host,
     username |-> input.username,
     password |-> EncryptPassword(input.password),
     port |-> input.port,
     description |-> input.description,
     created |-> now,
     last_used |-> PriorLastUsed(profiles, name)]

\* save_profile(name, host, username, password, port, description)
SaveProfile(name, input, wr) ==
    /\ LET profiles == LoadProfiles(vault_file).value
           profile_data == ProfileData(profiles, name, input, vault_now)
           updated == DictPut(profiles, name, profile_data)
       IN  /\ vault_file' = SaveProfiles(vault_file, updated, wr)
           /\ vault_last' = VaultCall("save", name, input, FALSE, wr = "ok")
           /\ vault_saved' = IF wr = "ok" THEN vault_saved \cup {name}
                             ELSE vault_saved
           /\ vault_clean' = (vault_clean /\ wr # "write_fails")
    /\ UNCHANGED vault_now
    /\ VaultFrame

\* delete_profile(name)
DeleteProfile(name, wr) ==
    /\ LET profiles == LoadProfiles(vault_file).value
       IN  IF DictHas(profiles, name)
           THEN /\ vault_file' = SaveProfiles(vault_file, DictDel(profiles, name), wr)
                /\ vault_last' = VaultCall("delete", name, NoInput, FALSE, wr = "ok")
                /\ vault_saved' = IF wr = "ok" THEN vault_saved \ {name}
                                  ELSE vault_saved
                /\ vault_clean' = (vault_clean /\ wr # "write_fails")
           ELSE /\ wr = "ok"
                /\ vault_last' = VaultCall("delete", name, NoInput, FALSE, FALSE)
                /\ UNCHANGED <<vault_file, vault_saved, vault_clean>>
    /\ UNCHANGED vault_now
    /\ VaultFrame

\* mark_profile_used(name)
MarkProfileUsed(name, wr) ==
    /\ LET profiles == LoadProfiles(vault_file).value
       IN  IF DictHas(profiles, name)
           THEN LET entry == [DictGet(profiles, name) EXCEPT !.last_used = vault_now]
                IN  /\ vault_file' = SaveProfiles(vault_file,
                                        DictPut(profiles, name, entry), wr)
                    /\ vault_last' = VaultCall("mark", name, NoInput, FALSE, wr = "ok")
                    /\ vault_clean' = (vault_clean /\ wr # "write_fails")
           ELSE /\ wr = "ok"
                /\ vault_last' = VaultCall("mark", name, NoInput, FALSE, FALSE)
                /\ UNCHANGED <<vault_file, vault_clean>>
    /\ UNCHANGED <<vault_now, vault_saved>>
    /\ VaultFrame

\* load_profiles(), get_profile(name), list_profiles() called by a client.
LoadProfilesCall ==
    /\ LET r == LoadProfiles(vault_file)
       IN  vault_last' = VaultCall("load", "", NoInput, r.raised, r.value)
    /\ UNCHANGED <<vault_file, vault_now, vault_saved, vault_clean>>
    /\ VaultFrame

GetProfileCall(name) ==
    /\ LET r == GetProfile(vault_file, name)
       IN  vault_last' = VaultCall("get", name, NoInput, r.raised, r.value)
    /\ UNCHANGED <<vault_file, vault_now, vault_saved, vault_clean>>
    /\ VaultFrame

ListProfilesCall ==
    /\ LET r == ListProfiles(vault_file)
       IN  vault_last' = VaultCall("list", "", NoInput, r.raised, r.value)
    /\ UNCHANGED <<vault_file, vault_now, vault_saved, vault_clean>>
    /\ VaultFrame

\* Time passes: datetime.now() moves on.
VaultTick ==
    /\ vault_now < 1 + MaxTicks
    /\ vault_now' = vault_now + 1
    /\ UNCHANGED <<vault_file, vault_saved, vault_clean, vault_last>>
    /\ VaultFrame

\* Something outside the vault changes a byte of profiles.enc.
CorruptFile ==
    /\ vault_file.kind = "fernet"
    /\ vault_file.intact
    /\ vault_file' = [vault_file EXCEPT !.intact = FALSE]
    /\ vault_clean' = FALSE
    /\ vault_last' = VaultCall("corrupt", "", NoInput, FALSE, FALSE)
    /\ UNCHANGED <<vault_now, vault_saved>>
    /\ VaultFrame

\* profiles.enc is rewritten outside the vault, under the key of key.enc,
\* with the password of one entry replaced by a text that is no token of the
\* key: the case the except branch of get_profile is written for.
CorruptPassword(name) ==
    /\ LET loaded == LoadProfiles(vault_file).value
       IN  /\ DictHas(loaded, name)
           /\ DecryptPassword(DictGet(loaded, name).password).ok
           /\ LET entry == DictGet(loaded, name)
                   bad == B64Encode([entry.password.of EXCEPT !.intact = FALSE])
               IN  vault_file' = SaveProfiles(vault_file,
                       DictPut(loaded, name, [entry EXCEPT !.password = bad]),
                       "ok")
    /\ vault_clean' = FALSE
    /\ vault_last' = VaultCall("corrupt_password", name, NoInput, FALSE, FALSE)
    /\ UNCHANGED <<vault_now, vault_saved>>
    /\ VaultFrame

(***************************************************************************)
(* The vault called from two threads at once.  A call is three steps of    *)
(* its thread: load_profiles and the change of the loaded dict; the        *)
(* open(..., 'wb') of _save_profiles, which truncates the file; the write. *)
(* ProfileManager holds no lock, so the steps of two calls interleave.     *)
(***************************************************************************)
ConcOps == {"save", "delete", "mark"}
ConcInputs(op) == IF op = "save" THEN ProfileInputs ELSE {NoInput}

\* The files the calls start from: none, or one the vault wrote before.
ConcStored ==
    LET a == ProfileData(<<>>, "a", CHOOSE i \in ProfileInputs : i.host = "h1", 1)
        b == ProfileData(<<>>, "b", CHOOSE i \in ProfileInputs : i.host = "h2", 1)
    IN  {<<a>>, <<b>>, <<a, b>>}
ConcFiles ==
    {NoFile} \cup {SaveProfiles(NoFile, profiles, "ok") : profiles \in ConcStored}

ConcInit ==
    /\ vault_file \in ConcFiles
    /\ vault_now = 2
    /\ vault_saved = {n \in VaultNames : DictHas(LoadProfiles(vault_file).value, n)}
    /\ vault_clean = TRUE
    /\ vault_last = VaultCall("none", "", NoInput, FALSE, FALSE)
    /\ vault_threads = [t \in ConcThreads |-> ConcIdle]

ConcFrame ==
    /\ UNCHANGED <<vault_now, vault_saved, vault_clean, vault_last>>
    /\ UNCHANGED <<ansiVars, sgrVars, termVars, regVars, xferVars, extVars>>

\* Thread t enters save_profile, delete_profile or mark_profile_used: it
\* loads the file and changes the dict it got; delete and mark of a name
\* that is not in the dict return False at once.
ConcLoad(t, op, name, input) ==
    /\ vault_threads[t].pc = "idle"
    /\ LET profiles == LoadProfiles(vault_file).value
           changed ==
               IF op = "save"
               THEN DictPut(profiles, name,
                            ProfileData(profiles, name, input, vault_now))
               ELSE IF op = "delete" THEN DictDel(profiles, name)
               ELSE DictPut(profiles, name,
                            [DictGet(profiles, name) EXCEPT !.last_used = vault_now])
       IN  IF op = "save" \/ DictHas(profiles, name)
           THEN vault_threads' = [vault_threads EXCEPT ![t] =
                    [pc |-> "open", op |-> op, name |-> name, input |-> input,
                     profiles |-> changed, ret |-> FALSE]]
           ELSE vault_threads' = [vault_threads EXCEPT ![t] =
                    [pc |-> "done", op |-> op, name |-> name, input |-> input,
                     profiles |-> <<>>, ret |-> FALSE]]
    /\ UNCHANGED vault_file
    /\ ConcFrame

\* _save_profiles, with open(self.profiles_file, 'wb'): the file is empty
\* from here until the write; if open raises, the call returns False.
ConcOpen(t, wr) ==
    /\ vault_threads[t].pc = "open"
    /\ IF wr = "open_fails"
       THEN /\ vault_threads' = [vault_threads EXCEPT ![t].pc = "done"]
            /\ UNCHANGED vault_file
       ELSE /\ vault_threads' = [vault_threads EXCEPT ![t].pc = "write"]
            /\ vault_file' = Truncated
    /\ ConcFrame

\* f.write(encrypted_data) and the return of the call: True, or False if
\* the write raised.
ConcWrite(t, wr) ==
    /\ vault_threads[t].pc = "write"
    /\ IF wr = "write_fails"
       THEN /\ vault_threads' = [vault_threads EXCEPT ![t].pc = "done"]
            /\ vault_file' = Truncated
       ELSE /\ vault_threads' = [vault_threads EXCEPT ![t].pc = "done",
                                                      ![t].ret = TRUE]
            /\ vault_file' = SaveProfiles(vault_file, vault_threads[t].profiles, "ok")
    /\ ConcFrame

NextVaultConc ==
    \E t \in ConcThreads :
        \/ \E op \in ConcOps, name \in VaultNames :
             \E input \in ConcInputs(op) : ConcLoad(t, op, name, input)
        \/ \E wr \in {"ok", "open_fails"} : ConcOpen(t, wr)
        \/ \E wr \in {"ok", "write_fails"} : ConcWrite(t, wr)

NextVault ==
    \/ \E name \in VaultNames, input \in ProfileInputs, wr \in WriteOutcomes :
         SaveProfile(name, input, wr)
    \/ \E name \in VaultNames, wr \in WriteOutcomes : DeleteProfile(name, wr)
    \/ \E name \in VaultNames, wr \in WriteOutcomes : MarkProfileUsed(name, wr)
    \/ LoadProfilesCall
    \/ \E name \in VaultNames : GetProfileCall(name)
    \/ ListProfilesCall
    \/ VaultTick
    \/ CorruptFile
    \/ \E name \in VaultNames : CorruptPassword(name)

(***************************************************************************)
(* SCPManager: the transfer engine.  The local and the remote file system  *)
(* are given by what they hold and by where they fail: each file carries   *)
(* its size and the step of its transfer that raises, if any.              *)
(***************************************************************************)
MaxRootFiles == 2
MaxSubFiles == 1
MaxRemoteEntries == 2

\* chunk_size = 8192
chunk_size == 8192
FileSizes == {0, 8193}

\* A call returns True or False, or an exception leaves it.
RetTrue == "True"
RetFalse == "False"
RetRaise == "raise"

Min(a, b) == IF a < b THEN a ELSE b

RECURSIVE TransferLoop(_, _, _, _)
\* _transfer_with_progress: while transferred < total_size, a chunk of at
\* most chunk_size bytes is read (the source holds avail bytes), written and
\* reported to progress_callback.  Gives [transferred, calls].
TransferLoop(total_size, avail, transferred, calls) ==
    IF ~(transferred < total_size)
    THEN [transferred |-> transferred, calls |-> calls]
    ELSE LET chunk == Min(chunk_size, avail - transferred)
         IN  IF chunk = 0
             THEN [transferred |-> transferred, calls |-> calls]
             ELSE TransferLoop(total_size, avail, transferred + chunk, calls + 1)

TransferWithProgress(total_size, avail) == TransferLoop(total_size, avail, 0, 0)

\* The except branch of upload_file and download_file reads transfer_id: if
\* the exception came before transfer_id was assigned, the branch itself
\* raises UnboundLocalError; otherwise it returns False.
ExceptBranch(transfer_id_bound) ==
    IF transfer_id_bound THEN RetFalse ELSE RetRaise

Outcome(ret, progress) == [ret |-> ret, progress |-> progress]

\* Where an upload can fail: the local file is missing; it vanishes before
\* os.path.getsize; _ensure_remote_directory raises; an open raises; a read
\* or a write raises in the chunk loop.
UploadFaults == {"none", "missing", "getsize", "mkdir", "open", "io"}

\* upload_file(local_path, remote_path, progress_callback)
UploadFile(f) ==
    IF f.fault = "missing" THEN Outcome(RetFalse, 0)
    ELSE IF f.fault = "getsize" THEN Outcome(ExceptBranch(FALSE), 0)
    ELSE IF f.fault \in {"mkdir", "open"} THEN Outcome(ExceptBranch(TRUE), 0)
    ELSE IF f.fault = "io" /\ f.size > 0 THEN Outcome(ExceptBranch(TRUE), 0)
    ELSE Outcome(RetTrue, TransferWithProgress(f.size, f.size).calls)

\* Where a download can fail: sftp stat raises (the remote file does not
\* exist); os.makedirs or an open raises; a read or a write raises.
DownloadFaults == {"none", "stat", "open", "io"}

\* download_file(remote_path, local_path, progress_callback)
DownloadFile(f) ==
    IF f.fault = "stat" THEN Outcome(ExceptBranch(FALSE), 0)
    ELSE IF f.fault = "open" THEN Outcome(ExceptBranch(TRUE), 0)
    ELSE IF f.fault = "io" /\ f.size > 0 THEN Outcome(ExceptBranch(TRUE), 0)
    ELSE Outcome(RetTrue, TransferWithProgress(f.size, f.size).calls)

\* A remote directory: whether listdir_attr raises, and its entries, files
\* and (one level of) directories.
RemoteFiles == [kind : {"file"}, size : {0}, fault : DownloadFaults]
RemoteSubDirs ==
    [kind : {"dir"}, fault : {"none", "listdir"},
     entries : UNION {[1..n -> RemoteFiles] : n \in 0..MaxSubFiles}]
RemoteDirs ==
    [kind : {"dir"}, fault : {"none", "listdir"},
     entries : UNION {[1..n -> RemoteFiles \cup RemoteSubDirs] :
                      n \in 0..MaxRemoteEntries}]

RECURSIVE DownloadEntries(_, _)
\* The for loop of download_directory from entry i on: the first entry that
\* fails ends the call with False; an exception out of download_file is
\* caught by download_directory's own except branch.
DownloadEntries(entries, i) ==
    IF i > Len(entries) THEN RetTrue
    ELSE LET e == entries[i]
             r == IF e.kind = "dir"
                  THEN IF e.fault = "listdir" THEN RetFalse
                       ELSE DownloadEntries(e.entries, 1)
                  ELSE DownloadFile(e).ret
         IN  IF r = RetTrue THEN DownloadEntries(entries, i + 1) ELSE RetFalse

\* download_directory(remote_dir, local_dir, progress_callback)
DownloadDirectory(d) ==
    IF d.fault = "listdir" THEN RetFalse ELSE DownloadEntries(d.entries, 1)

\* A local directory tree: the files of the top directory and of its
\* subdirectories, in the order os.walk yields them.
LocalFiles == [size : FileSizes, fault : {"none", "missing", "open"}]
LocalFileLists(n) == UNION {[1..k -> LocalFiles] : k \in 0..n}
LocalTrees ==
    [files : LocalFileLists(MaxRootFiles),
     dirs : {<<>>} \cup {<<[files |-> fs, dirs |-> <<>>]>> :
                            fs \in LocalFileLists(MaxSubFiles)}]

RECURSIVE WalkDirs(_, _, _)
\* os.walk(local_dir): the files of a directory, then its subdirectories in
\* turn; each file with its path below local_dir.
Walk(tree, prefix) ==
    [k \in 1..Len(tree.files) |->
        [path |-> Append(prefix, k), file |-> tree.files[k]]]
    \o WalkDirs(tree.dirs, prefix, 1)
WalkDirs(dirs, prefix, d) ==
    IF d > Len(dirs) THEN <<>>
    ELSE Walk(dirs[d], Append(prefix, -d)) \o WalkDirs(dirs, prefix, d + 1)

\* Mutant of DirContinues: the result of upload_file is ignored.
DirContinuesAlways(ret) == TRUE

\* if not self.upload_file(...): return False
DirContinues(ret) == ret = RetTrue

NoTree == [files |-> <<>>, dirs |-> <<>>]
\* Transfers run in threads of their own (file_browser.py starts one per
\* upload or download request); the client may cancel at any time.
MaxSeconds == 2
TransferOps == {"upload", "download"}

\* The size recorded when a transfer followed step by step begins, and the
\* bytes its source yields when read, which need not be that size.
LoopSizes == {8193}
SourceSizes == {8192, 8193}

\* transfer_id = f"upload_{int(time.time())}" / f"download_{int(time.time())}"
TransferId(op, now) == [op |-> op, t |-> now]
TransferIds == [op : TransferOps, t : 1..MaxSeconds]
NoId == [op |-> "none", t |-> 0]

\* self.active_transfers = {}
EmptyTable == [k \in {} |-> 0]
TablePut(table, id, entry) ==
    [k \in DOMAIN table \cup {id} |-> IF k = id THEN entry ELSE table[k]]

\* Mutant of TableDel: the entry stays in the table.
TableKeep(table, id) == table

\* del self.active_transfers[transfer_id]
TableDel(table, id) == [k \in DOMAIN table \ {id} |-> table[k]]

TaskIdle ==
    [pc |-> "idle", id |-> NoId, total |-> 0, avail |-> 0, fault |-> "none",
     chunks |-> <<>>, calls |-> <<>>, ret |-> RetTrue]
CancelIdle == [pc |-> "idle", id |-> NoId, ret |-> RetFalse]

RECURSIVE SumSeq(_)
SumSeq(q) == IF q = <<>> THEN 0 ELSE Head(q) + SumSeq(Tail(q))

XferIdle == [pc |-> "idle", tree |-> NoTree, files |-> <<>>, i |-> 0, ret |-> RetFalse]

\* SCPManager.__init__
XferInit ==
    /\ xfer_dir = XferIdle
    /\ xfer_uploads = <<>>
    /\ xfer_last = [op |-> "none", ret |-> RetTrue, progress |-> 0]
    /\ active_transfers = EmptyTable
    /\ xfer_task = TaskIdle
    /\ xfer_other = NoId
    /\ xfer_now = 1
    /\ xfer_cancel = CancelIdle

XferFrame ==
    UNCHANGED <<ansiVars, sgrVars, termVars, regVars, vaultVars, loopVars,
                extVars>>

\* download_file called by a client.
DownloadFileCall(f) ==
    /\ xfer_dir.pc = "idle"
    /\ LET r == DownloadFile(f)
       IN  xfer_last' = [op |-> "download_file", ret |-> r.ret,
                         progress |-> r.progress]
    /\ UNCHANGED <<xfer_dir, xfer_uploads>>
    /\ XferFrame

\* upload_file called by a client.
UploadFileCall(f) ==
    /\ xfer_dir.pc = "idle"
    /\ LET r == UploadFile(f)
       IN  xfer_last' = [op |-> "upload_file", ret |-> r.ret,
                         progress |-> r.progress]
    /\ UNCHANGED <<xfer_dir, xfer_uploads>>
    /\ XferFrame

\* download_directory called by a client.
DownloadDirectoryCall(d) ==
    /\ xfer_dir.pc = "idle"
    /\ xfer_last' = [op |-> "download_directory", ret |-> DownloadDirectory(d),
                     progress |-> 0]
    /\ UNCHANGED <<xfer_dir, xfer_uploads>>
    /\ XferFrame

\* upload_directory called by a client: the local directory may be missing
\* (return False) and _ensure_remote_directory may raise (except: return
\* False); otherwise the walk begins.
UploadDirectoryBegin(tree, fault) ==
    /\ xfer_dir.pc = "idle"
    /\ IF fault = "none"
       THEN /\ xfer_dir' = [pc |-> "walk", tree |-> tree,
                            files |-> Walk(tree, <<>>), i |-> 1, ret |-> RetFalse]
            /\ UNCHANGED xfer_last
       ELSE /\ xfer_dir' = [pc |-> "done", tree |-> tree, files |-> <<>>,
                            i |-> 1, ret |-> RetFalse]
            /\ xfer_last' = [op |-> "upload_directory", ret |-> RetFalse,
                             progress |-> 0]
    /\ xfer_uploads' = <<>>
    /\ XferFrame

\* One turn of the loop over the walk: upload_file of the next file.  An
\* exception out of upload_file ends upload_directory in its except branch.
UploadDirectoryFile ==
    /\ xfer_dir.pc = "walk"
    /\ xfer_dir.i <= Len(xfer_dir.files)
    /\ LET next == xfer_dir.files[xfer_dir.i]
           r == UploadFile(next.file)
       IN  /\ xfer_uploads' = Append(xfer_uploads,
                                 [path |-> next.path, ret |-> r.ret,
                                  progress |-> r.progress])
           /\ IF r.ret # RetRaise /\ DirContinues(r.ret)
              THEN /\ xfer_dir' = [xfer_dir EXCEPT !.i = @ + 1]
                   /\ UNCHANGED xfer_last
              ELSE /\ xfer_dir' = [xfer_dir EXCEPT !.pc = "done", !.ret = RetFalse]
                   /\ xfer_last' = [op |-> "upload_directory", ret |-> RetFalse,
                                    progress |-> 0]
    /\ XferFrame

\* The walk is over: return True.
UploadDirectoryEnd ==
    /\ xfer_dir.pc = "walk"
    /\ xfer_dir.i > Len(xfer_dir.files)
    /\ xfer_dir' = [xfer_dir EXCEPT !.pc = "done", !.ret = RetTrue]
    /\ xfer_last' = [op |-> "upload_directory", ret |-> RetTrue, progress |-> 0]
    /\ UNCHANGED xfer_uploads
    /\ XferFrame

\* The arguments of a top-level call: one is made only while no
\* upload_directory is in progress, so the arguments are drawn only then.
CallArgs(args) == IF xfer_dir.pc = "idle" THEN args ELSE {}

NextXfer ==
    \/ \E f \in CallArgs([size : FileSizes, fault : DownloadFaults]) :
         DownloadFileCall(f)
    \/ \E f \in CallArgs([size : FileSizes, fault : UploadFaults]) :
         UploadFileCall(f)
    \/ \E d \in CallArgs(RemoteDirs) : DownloadDirectoryCall(d)
    \/ \E tree \in CallArgs(LocalTrees), fault \in {"none", "missing", "mkdir"} :
         UploadDirectoryBegin(tree, fault)
    \/ UploadDirectoryFile
    \/ UploadDirectoryEnd

(***************************************************************************)
(* upload_file and download_file step by step: the entry in                *)
(* active_transfers, the chunk loop of _transfer_with_progress, the        *)
(* clean-up, and cancel_transfer called meanwhile.  A test of membership   *)
(* and the subscript that follows it are two steps.                        *)
(***************************************************************************)
LoopFrame ==
    /\ UNCHANGED <<xfer_dir, xfer_uploads, xfer_last>>
    /\ UNCHANGED <<ansiVars, sgrVars, termVars, regVars, vaultVars, extVars>>

InFlight == xfer_task.pc \notin {"idle", "done"}

\* The call ends with ret.
TransferReturns(ret) ==
    xfer_task' = [xfer_task EXCEPT !.pc = "done", !.ret = ret]

TaskGoes(pc) == xfer_task' = [xfer_task EXCEPT !.pc = pc]

\* upload_file / download_file up to the chunk loop: the size is read, the
\* id is made from the clock, the entry is put in the table, directories
\* are made and the files opened.
TransferBegin(op, total, avail, fault) ==
    /\ ~InFlight
    /\ LET id == TransferId(op, xfer_now)
           task == [pc |-> "loop", id |-> id, total |-> total, avail |-> avail,
                    fault |-> fault, chunks |-> <<>>, calls |-> <<>>,
                    ret |-> RetTrue]
       IN  IF fault \in {"missing", "getsize", "stat"}
           THEN /\ xfer_task' = [TaskIdle EXCEPT !.pc = "done", !.fault = fault,
                                   !.ret = IF fault = "missing" THEN RetFalse
                                           ELSE ExceptBranch(FALSE)]
                /\ UNCHANGED active_transfers
           ELSE /\ active_transfers' =
                       TablePut(active_transfers, id,
                                [total_size |-> total, transferred |-> 0])
                /\ xfer_task' = IF fault \in {"mkdir", "open"}
                                THEN [task EXCEPT !.pc = "except"] ELSE task
    /\ UNCHANGED <<xfer_other, xfer_now, xfer_cancel>>
    /\ LoopFrame

\* while transferred < total_size: chunk = read(chunk_size); if not chunk:
\* break; write(chunk); transferred += len(chunk)
TransferChunk ==
    LET transferred == SumSeq(xfer_task.chunks)
        chunk == Min(chunk_size, xfer_task.avail - transferred)
    IN  /\ xfer_task.pc = "loop"
        /\ IF ~(transferred < xfer_task.total) \/ chunk = 0
           THEN TaskGoes("cleanup")
           ELSE IF xfer_task.fault = "io"
           THEN TaskGoes("except")
           ELSE xfer_task' = [xfer_task EXCEPT !.pc = "check",
                                 !.chunks = Append(xfer_task.chunks, chunk)]
        /\ UNCHANGED <<active_transfers, xfer_other, xfer_now, xfer_cancel>>
        /\ LoopFrame

\* if transfer_id in self.active_transfers:
TransferCheck ==
    /\ xfer_task.pc = "check"
    /\ TaskGoes(IF xfer_task.id \in DOMAIN active_transfers
                THEN "update" ELSE "loop")
    /\ UNCHANGED <<active_transfers, xfer_other, xfer_now, xfer_cancel>>
    /\ LoopFrame

\* self.active_transfers[transfer_id]["transferred"] = transferred, which
\* raises KeyError if the entry has gone since the test; then the callbacks.
TransferUpdate ==
    LET transferred == SumSeq(xfer_task.chunks)
    IN  /\ xfer_task.pc = "update"
        /\ IF xfer_task.id \in DOMAIN active_transfers
           THEN /\ active_transfers' =
                       [active_transfers EXCEPT
                           ![xfer_task.id].transferred = transferred]
                /\ xfer_task' = [xfer_task EXCEPT !.pc = "loop",
                       !.calls = Append(xfer_task.calls,
                           [bytesSoFar |-> transferred,
                            totalBytes |-> xfer_task.total])]
           ELSE /\ TaskGoes("except")
                /\ UNCHANGED active_transfers
        /\ UNCHANGED <<xfer_other, xfer_now, xfer_cancel>>
        /\ LoopFrame

\* After the loop and in the except branch:
\* if transfer_id in self.active_transfers: -- otherwise return.
TransferCleanupCheck ==
    /\ xfer_task.pc \in {"cleanup", "except"}
    /\ IF xfer_task.id \in DOMAIN active_transfers
       THEN TaskGoes(IF xfer_task.pc = "cleanup" THEN "del" ELSE "del_except")
       ELSE TransferReturns(IF xfer_task.pc = "cleanup" THEN RetTrue ELSE RetFalse)
    /\ UNCHANGED <<active_transfers, xfer_other, xfer_now, xfer_cancel>>
    /\ LoopFrame

\* del self.active_transfers[transfer_id]; return True -- a KeyError of the
\* del goes to the except branch.
TransferCleanupDel ==
    /\ xfer_task.pc = "del"
    /\ IF xfer_task.id \in DOMAIN active_transfers
       THEN /\ active_transfers' = TableDel(active_transfers, xfer_task.id)
            /\ TransferReturns(RetTrue)
       ELSE /\ TaskGoes("except")
            /\ UNCHANGED active_transfers
    /\ UNCHANGED <<xfer_other, xfer_now, xfer_cancel>>
    /\ LoopFrame

\* except branch: del self.active_transfers[transfer_id]; return False -- a
\* KeyError of this del leaves the call.
TransferExceptDel ==
    /\ xfer_task.pc = "del_except"
    /\ IF xfer_task.id \in DOMAIN active_transfers
       THEN /\ active_transfers' = TableDel(active_transfers, xfer_task.id)
            /\ TransferReturns(RetFalse)
       ELSE /\ TransferReturns(RetRaise)
            /\ UNCHANGED active_transfers
    /\ UNCHANGED <<xfer_other, xfer_now, xfer_cancel>>
    /\ LoopFrame

\* Another thread calls upload_file or download_file: its entry is put in
\* the table under the id the clock gives.
OtherBegin(op) ==
    /\ xfer_other = NoId
    /\ xfer_other' = TransferId(op, xfer_now)
    /\ active_transfers' =
           TablePut(active_transfers, xfer_other',
                    [total_size |-> 0, transferred |-> 0])
    /\ UNCHANGED <<xfer_task, xfer_now, xfer_cancel>>
    /\ LoopFrame

\* The other thread's call ends: its id, if in the table, is deleted.
OtherEnd ==
    /\ xfer_other # NoId
    /\ xfer_other' = NoId
    /\ active_transfers' = IF xfer_other \in DOMAIN active_transfers
                           THEN TableDel(active_transfers, xfer_other)
                           ELSE active_transfers
    /\ UNCHANGED <<xfer_task, xfer_now, xfer_cancel>>
    /\ LoopFrame

\* cancel_transfer(id): if transfer_id in self.active_transfers: ...
\* return False
CancelTransferCheck(id) ==
    /\ xfer_cancel.pc = "idle"
    /\ xfer_cancel' = IF id \in DOMAIN active_transfers
                      THEN [pc |-> "del", id |-> id, ret |-> RetFalse]
                      ELSE [pc |-> "idle", id |-> id, ret |-> RetFalse]
    /\ UNCHANGED <<active_transfers, xfer_task, xfer_other, xfer_now>>
    /\ LoopFrame

\* del self.active_transfers[transfer_id]; return True
CancelTransferDel ==
    /\ xfer_cancel.pc = "del"
    /\ IF xfer_cancel.id \in DOMAIN active_transfers
       THEN /\ active_transfers' = TableDel(active_transfers, xfer_cancel.id)
            /\ xfer_cancel' = [xfer_cancel EXCEPT !.pc = "idle", !.ret = RetTrue]
       ELSE /\ xfer_cancel' = [xfer_cancel EXCEPT !.pc = "idle", !.ret = RetRaise]
            /\ UNCHANGED active_transfers
    /\ UNCHANGED <<xfer_task, xfer_other, xfer_now>>
    /\ LoopFrame

\* The clock reaches the next second.
ClockTick ==
    /\ xfer_now < MaxSeconds
    /\ xfer_now' = xfer_now + 1
    /\ UNCHANGED <<active_transfers, xfer_task, xfer_other, xfer_cancel>>
    /\ LoopFrame

LoopFaults(op) == IF op = "upload" THEN UploadFaults ELSE DownloadFaults

NextXferLoop ==
    \/ \E op \in TransferOps, total \in LoopSizes, avail \in SourceSizes :
         \E fault \in LoopFaults(op) : TransferBegin(op, total, avail, fault)
    \/ TransferChunk
    \/ TransferCheck
    \/ TransferUpdate
    \/ TransferCleanupCheck
    \/ TransferCleanupDel
    \/ TransferExceptDel
    \/ \E op \in TransferOps : OtherBegin(op)
    \/ OtherEnd
    \/ \E id \in TransferIds : CancelTransferCheck(id)
    \/ CancelTransferDel
    \/ ClockTick

(***************************************************************************)
(* SCPManager._ensure_remote_directory on its own.  The remote directory   *)
(* is the last of a chain of paths, one per level: level 1 is the topmost  *)
(* directory ('/a' or 'a'), level 0 is '/' or ''.  Another actor may       *)
(* create something at a path between the stat that misses it and the      *)
(* mkdir, and a mkdir may be denied.                                       *)
(***************************************************************************)
MaxDepth == 2

\* What a path is on the remote side, and the st_mode stat gives for it.
EntryTypes == {"dir", "file", "socket"}
ModeOf(type) ==
    CASE type = "dir" -> 16877       \* 0o040755
      [] type = "file" -> 33188      \* 0o100644
      [] type = "socket" -> 49645    \* 0o140755

\* st_mode & 0o040000
DirBit(mode) == (mode \div 16384) % 2 = 1

\* os.path.dirname(remote_dir): one level up.
ParentOf(level) == level - 1

HasParent(fs, level) == level = 1 \/ fs[level - 1] = "dir"

\* The file systems in which a path exists only inside a directory.
RemoteChains ==
    {fs \in [1..MaxDepth -> EntryTypes \cup {"missing"}] :
        \A k \in 2..MaxDepth : fs[k] # "missing" => fs[k - 1] = "dir"}

MkdirEvents ==
    [racer : [1..MaxDepth -> EntryTypes \cup {"none"}],
     denied : [1..MaxDepth -> BOOLEAN]]

RECURSIVE EnsureRemoteDirectory(_, _, _)
\* _ensure_remote_directory(remote_dir) for the path of the given level, in
\* the state st = [fs, raised, log]; log holds the mkdir calls in order.
EnsureRemoteDirectory(level, st, ev) ==
    IF level <= 0 THEN st
    ELSE IF st.fs[level] # "missing" THEN st
    ELSE
        LET p == EnsureRemoteDirectory(ParentOf(level), st, ev)
            fs1 == IF ev.racer[level] # "none" /\ HasParent(p.fs, level)
                       /\ p.fs[level] = "missing"
                   THEN [p.fs EXCEPT ![level] = ev.racer[level]]
                   ELSE p.fs
            made == fs1[level] = "missing" /\ HasParent(fs1, level)
                    /\ ~ev.denied[level]
            raises == IF fs1[level] = "missing" THEN TRUE
                      ELSE ~DirBit(ModeOf(fs1[level]))
        IN  IF p.raised THEN p
            ELSE IF made
            THEN [fs |-> [fs1 EXCEPT ![level] = "dir"], raised |-> FALSE,
                  log |-> Append(p.log, [level |-> level, made |-> TRUE,
                                         found |-> "missing", raised |-> FALSE])]
            ELSE [fs |-> fs1, raised |-> raises,
                  log |-> Append(p.log, [level |-> level, made |-> FALSE,
                                         found |-> fs1[level], raised |-> raises])]

MkdirIdle == mk_call = [pc |-> "idle"]

\* A call not yet made: the path, the remote side and the events are drawn.
MkdirInit ==
    \E depth \in 0..MaxDepth, fs \in RemoteChains, ev \in MkdirEvents :
        mk_call = [pc |-> "pending", depth |-> depth, fs |-> fs, ev |-> ev,
                   res |-> [fs |-> fs, raised |-> FALSE, log |-> <<>>]]

EnsureRemoteDirectoryCall ==
    /\ mk_call.pc = "pending"
    /\ mk_call' = [mk_call EXCEPT !.pc = "done",
           !.res = EnsureRemoteDirectory(mk_call.depth,
                       [fs |-> mk_call.fs, raised |-> FALSE, log |-> <<>>],
                       mk_call.ev)]
    /\ UNCHANGED <<ansiVars, sgrVars, termVars, regVars, vaultVars, xferVars>>
    /\ UNCHANGED <<decVars, uiVars, scanVars>>

(***************************************************************************)
(* The decoding step of SSHTerminal._monitor_output on its own: the bytes  *)
(* of the channel are read in chunks, recv(1024) returning any non-empty   *)
(* prefix of what has not been read, and each chunk is decoded by itself.  *)
(* Text is a sequence of code points.                                      *)
(***************************************************************************)
MaxBytes == 3

\* 'a', the two bytes of U+00E9 and a byte that occurs in no UTF-8 text.
ChannelBytes == {97, 195, 169, 255}
Replacement == 65533

RECURSIVE DecodeReplace(_)
\* bytes.decode('utf-8', errors='replace')
DecodeReplace(bytes) ==
    IF bytes = <<>> THEN <<>>
    ELSE IF Head(bytes) < 128 THEN <<Head(bytes)>> \o DecodeReplace(Tail(bytes))
    ELSE IF Head(bytes) \in 194..223 /\ Len(bytes) >= 2
            /\ bytes[2] \in 128..191
    THEN <<(Head(bytes) - 192) * 64 + (bytes[2] - 128)>>
         \o DecodeReplace(Tail(Tail(bytes)))
    ELSE <<Replacement>> \o DecodeReplace(Tail(bytes))

ByteStreams == UNION {[1..n -> ChannelBytes] : n \in 0..MaxBytes}

DecodeIdle == dec_call = [stream |-> <<>>, pos |-> 0, out |-> <<>>]

DecodeInit ==
    \E stream \in ByteStreams :
        dec_call = [stream |-> stream, pos |-> 0, out |-> <<>>]

\* One iteration of the loop that finds data: recv, decode, callback.
MonitorOutputDecode(n) ==
    /\ dec_call.pos + n <= Len(dec_call.stream)
    /\ dec_call' = [dec_call EXCEPT
           !.pos = @ + n,
           !.out = @ \o DecodeReplace(SubSeq(dec_call.stream, dec_call.pos + 1,
                                      dec_call.pos + n))]
    /\ UNCHANGED <<ansiVars, sgrVars, termVars, regVars, vaultVars, xferVars>>
    /\ UNCHANGED <<mkdirVars, uiVars, scanVars>>

(***************************************************************************)
(* TerminalPanel: the output callback of each terminal runs on the pump    *)
(* thread of that terminal and schedules update_text on the UI thread; the *)
(* UI thread runs one event at a time, update_text or _close_terminal.     *)
(***************************************************************************)
MaxUpdates == 2

TerminalNames == {"Terminal 1", "Terminal 2"}

\* The panel with no terminal.
PanelIdle ==
    /\ ui_terminals = {} /\ ui_widgets = {} /\ ui_states = {}
    /\ ui_running = {}
    /\ ui_pump = [n \in TerminalNames |-> "idle"]
    /\ ui_after = <<>>
    /\ ui_main = [pc |-> "idle", name |-> ""]
    /\ ui_log = [scheduled |-> 0, raised |-> {}]

\* The panel after add_terminal of every name.
PanelInit ==
    /\ ui_terminals = TerminalNames /\ ui_widgets = TerminalNames
    /\ ui_states = TerminalNames /\ ui_running = TerminalNames
    /\ ui_pump = [n \in TerminalNames |-> "idle"]
    /\ ui_after = <<>>
    /\ ui_main = [pc |-> "idle", name |-> ""]
    /\ ui_log = [scheduled |-> 0, raised |-> {}]

PanelFrame ==
    UNCHANGED <<ansiVars, sgrVars, termVars, regVars, vaultVars, xferVars,
                mkdirVars, decVars, scanVars>>

\* _on_terminal_output, on the pump thread:
\* if terminal_name not in self.terminal_widgets: return
OnTerminalOutputCheck(name) ==
    /\ name \in ui_running
    /\ ui_pump[name] = "idle"
    /\ ui_log.scheduled < MaxUpdates
    /\ name \in ui_widgets
    /\ ui_pump' = [ui_pump EXCEPT ![name] = "schedule"]
    /\ UNCHANGED <<ui_terminals, ui_widgets, ui_states, ui_running, ui_after,
                   ui_main, ui_log>>
    /\ PanelFrame

\* self.parent.after(0, update_text)
OnTerminalOutputSchedule(name) ==
    /\ ui_pump[name] = "schedule"
    /\ ui_pump' = [ui_pump EXCEPT ![name] = "idle"]
    /\ ui_after' = Append(ui_after, name)
    /\ ui_log' = [ui_log EXCEPT !.scheduled = @ + 1]
    /\ UNCHANGED <<ui_terminals, ui_widgets, ui_states, ui_running, ui_main>>
    /\ PanelFrame

\* update_text and _parse_and_insert_ansi subscript terminal_widgets and
\* terminal_states with the name: KeyError when the key is not there.
UpdateTextRaises(name) == name \notin ui_widgets \/ name \notin ui_states

\* The UI thread runs the oldest scheduled update_text.
UpdateText ==
    /\ ui_main.pc = "idle"
    /\ ui_after # <<>>
    /\ ui_after' = Tail(ui_after)
    /\ ui_log' = IF UpdateTextRaises(Head(ui_after))
                 THEN [ui_log EXCEPT !.raised = @ \cup {Head(ui_after)}]
                 ELSE ui_log
    /\ UNCHANGED <<ui_terminals, ui_widgets, ui_states, ui_running, ui_pump,
                   ui_main>>
    /\ PanelFrame

\* _close_terminal up to terminal.stop_terminal(): the session stops.
CloseTerminalStop(name) ==
    /\ ui_main.pc = "idle"
    /\ name \in ui_terminals
    /\ ui_running' = ui_running \ {name}
    /\ ui_main' = [pc |-> "remove", name |-> name]
    /\ UNCHANGED <<ui_terminals, ui_widgets, ui_states, ui_pump, ui_after,
                   ui_log>>
    /\ PanelFrame

\* The rest of _close_terminal: the widget, the terminal and its state are
\* deleted from the dictionaries.
CloseTerminalRemove ==
    /\ ui_main.pc = "remove"
    /\ ui_widgets' = ui_widgets \ {ui_main.name}
    /\ ui_terminals' = ui_terminals \ {ui_main.name}
    /\ ui_states' = ui_states \ {ui_main.name}
    /\ ui_main' = [pc |-> "idle", name |-> ""]
    /\ UNCHANGED <<ui_running, ui_pump, ui_after, ui_log>>
    /\ PanelFrame

(***************************************************************************)
(* network_discovery: discover_all_local calls scan_network for each       *)
(* detected network in turn.  scan_network submits one _try_connect per    *)
(* host to a ThreadPoolExecutor of max_workers threads and consumes the    *)
(* futures as they complete; the `with` statement ends with                *)
(* executor.shutdown(wait=True).  Another thread sets cancel_event.        *)
(***************************************************************************)
MaxNetworks == 2
MaxHosts == 2
MaxWorkers == 1

ScanIdle ==
    scan = [pc |-> "end", net |-> 0, queued |-> 0, flight |-> 0, ready |-> 0,
            consumed |-> 0, cancel |-> FALSE, started |-> 0, callbacks |-> 0]

\* discover_all_local is about to scan the first network.
ScanInit ==
    scan = [pc |-> "submit", net |-> 1, queued |-> 0, flight |-> 0,
            ready |-> 0, consumed |-> 0, cancel |-> FALSE, started |-> 0,
            callbacks |-> 0]

ScanFrame ==
    UNCHANGED <<ansiVars, sgrVars, termVars, regVars, vaultVars, xferVars,
                mkdirVars, decVars, uiVars>>

\* scan_network: executor.submit(_try_connect, ...) for every host.
ScanSubmit ==
    /\ scan.pc = "submit"
    /\ scan' = [scan EXCEPT !.pc = "wait", !.queued = MaxHosts,
                            !.ready = 0, !.consumed = 0]
    /\ ScanFrame

\* A free worker thread takes a queued call: a connection attempt starts.
TryConnectStart ==
    /\ scan.queued > 0
    /\ scan.flight < MaxWorkers
    /\ scan' = [scan EXCEPT !.queued = @ - 1, !.flight = @ + 1,
                            !.started = @ + 1]
    /\ ScanFrame

\* _try_connect returns: the future is complete.
TryConnectEnd ==
    /\ scan.flight > 0
    /\ scan' = [scan EXCEPT !.flight = @ - 1, !.ready = @ + 1]
    /\ ScanFrame

\* for future in as_completed(...): if cancel_event.is_set(): break
ScanNext ==
    /\ scan.pc = "wait"
    /\ \/ /\ scan.consumed = MaxHosts
          /\ scan' = [scan EXCEPT !.pc = "shutdown"]
       \/ /\ scan.ready > 0
          /\ scan' = [scan EXCEPT !.ready = @ - 1, !.consumed = @ + 1,
                 !.pc = IF scan.cancel THEN "shutdown" ELSE "body"]
    /\ ScanFrame

\* The rest of the loop body: on_found when the port is open, on_progress.
ScanCallbacks(ok) ==
    /\ scan.pc = "body"
    /\ scan' = [scan EXCEPT !.pc = "wait",
                            !.callbacks = @ + (IF ok THEN 2 ELSE 1)]
    /\ ScanFrame

\* The end of the with statement, executor.shutdown(wait=True), returns
\* when every submitted call has run; discover_all_local then goes on to
\* the next network.
ScanShutdown ==
    /\ scan.pc = "shutdown"
    /\ scan.queued = 0 /\ scan.flight = 0
    /\ scan' = IF scan.net < MaxNetworks
               THEN [scan EXCEPT !.pc = "submit", !.net = @ + 1]
               ELSE [scan EXCEPT !.pc = "end"]
    /\ ScanFrame

\* cancel_event.set() on another thread.
ScanCancel ==
    /\ scan.pc # "end"
    /\ ~scan.cancel
    /\ scan' = [scan EXCEPT !.cancel = TRUE]
    /\ ScanFrame

ExtIdle == MkdirIdle /\ DecodeIdle /\ PanelIdle /\ ScanIdle

(***************************************************************************)
(* Specifications, one per component.                                      *)
(***************************************************************************)
NextAnsi == OnTerminalOutput
InitAnsi == AnsiInit /\ SgrIdle /\ TermInit /\ RegInit /\ VaultInit /\ XferInit /\ ExtIdle
SpecAnsi == InitAnsi /\ [][NextAnsi]_vars

NextSgr == HandleSgrCall
InitSgr == SgrInit /\ AnsiIdle /\ TermInit /\ RegInit /\ VaultInit /\ XferInit /\ ExtIdle
SpecSgr == InitSgr /\ [][NextSgr]_vars

InitTerm == TermInit /\ AnsiIdle /\ SgrIdle /\ RegInit /\ VaultInit /\ XferInit /\ ExtIdle
SpecTerm == InitTerm /\ [][NextTerm]_vars
SpecTermInput == InitTerm /\ [][NextTermInput]_vars
SpecTermCalls == InitTerm /\ [][NextTermCalls]_vars
SpecTermFaults == InitTerm /\ [][NextTermFaults]_vars
SpecTermLive == InitTerm /\ [][NextTermFaults]_vars /\ PumpsRun

InitReg == RegInit /\ AnsiIdle /\ SgrIdle /\ TermInit /\ VaultInit /\ XferInit /\ ExtIdle
SpecReg == InitReg /\ [][NextReg]_vars

InitVaultConc == AnsiIdle /\ SgrIdle /\ TermInit /\ RegInit /\ ConcInit /\ XferInit /\ ExtIdle
SpecVaultConc == InitVaultConc /\ [][NextVaultConc]_vars

InitVault == VaultInit /\ AnsiIdle /\ SgrIdle /\ TermInit /\ RegInit /\ XferInit /\ ExtIdle
SpecVault == InitVault /\ [][NextVault]_vars

InitXfer == XferInit /\ AnsiIdle /\ SgrIdle /\ TermInit /\ RegInit /\ VaultInit /\ ExtIdle
SpecXfer == InitXfer /\ [][NextXfer]_vars
SpecXferLoop == InitXfer /\ [][NextXferLoop]_vars

NextMkdir == EnsureRemoteDirectoryCall
InitMkdir ==
    /\ MkdirInit /\ AnsiIdle /\ SgrIdle /\ TermInit /\ RegInit /\ VaultInit
    /\ XferInit /\ DecodeIdle /\ PanelIdle /\ ScanIdle
SpecMkdir == InitMkdir /\ [][NextMkdir]_vars

NextDecode == \E n \in 1..MaxBytes : MonitorOutputDecode(n)
InitDecode ==
    /\ DecodeInit /\ AnsiIdle /\ SgrIdle /\ TermInit /\ RegInit /\ VaultInit
    /\ XferInit /\ MkdirIdle /\ PanelIdle /\ ScanIdle
SpecDecode == InitDecode /\ [][NextDecode]_vars

NextPanel ==
    \/ \E name \in TerminalNames : OnTerminalOutputCheck(name)
    \/ \E name \in TerminalNames : OnTerminalOutputSchedule(name)
    \/ UpdateText
    \/ \E name \in TerminalNames : CloseTerminalStop(name)
    \/ CloseTerminalRemove
InitPanel ==
    /\ PanelInit /\ AnsiIdle /\ SgrIdle /\ TermInit /\ RegInit /\ VaultInit
    /\ XferInit /\ MkdirIdle /\ DecodeIdle /\ ScanIdle
SpecPanel == InitPanel /\ [][NextPanel]_vars

NextScan ==
    \/ ScanSubmit
    \/ TryConnectStart
    \/ TryConnectEnd
    \/ ScanNext
    \/ \E ok \in BOOLEAN : ScanCallbacks(ok)
    \/ ScanShutdown
    \/ ScanCancel
InitScan ==
    /\ ScanInit /\ AnsiIdle /\ SgrIdle /\ TermInit /\ RegInit /\ VaultInit
    /\ XferInit /\ MkdirIdle /\ DecodeIdle /\ PanelIdle
SpecScan == InitScan /\ [][NextScan]_vars

(***************************************************************************)
(* Claims about the ANSI interpreter                                       *)
(***************************************************************************)
RECURSIVE InsertRuns(_)
\* The (text, tags) runs of a sequence of widget calls: the insertions in
\* order, insertions that follow one another with the same tags joined.
InsertRuns(ops) ==
    IF ops = <<>> THEN <<>>
    ELSE LET rest == InsertRuns(Tail(ops))
             o == Head(ops)
         IN  IF o.op # "insert" THEN
                 \* a cursor or erase call separates runs: mark the border
                 IF rest # <<>> /\ Head(rest).text = <<>> THEN rest
                 ELSE <<[text |-> <<>>, tags |-> {}]>> \o rest
             ELSE IF rest # <<>> /\ Head(rest).text # <<>>
                     /\ Head(rest).tags = o.tags
                  THEN <<[text |-> o.text \o Head(rest).text, tags |-> o.tags]>>
                       \o Tail(rest)
                  ELSE <<[text |-> o.text, tags |-> o.tags]>> \o rest

\* The stream delivered as one chunk to a fresh tab.
WholeDelivery ==
    ParseAndInsertAnsi({}, <<>>, ProcessTerminalOutput(ansi_whole))

\* C1: once every chunk of a stream has been delivered (no callback having
\* failed), the text runs inserted and the final attribute set are those of
\* the stream delivered as one chunk, wherever the stream was cut.
C1_SplitChunksSameRuns ==
    (ansi_pending = <<>> /\ ~ansi_raised /\ ~WholeDelivery.raised) =>
        /\ InsertRuns(widget_ops) = InsertRuns(WholeDelivery.ops)
        /\ cur_tags = WholeDelivery.tags

\* The pieces the interpreter has no branch for, and plain text.
UnknownPieces ==
    { <<"x">>,
      <<ESC, "[", "?", "2", "5", "l">>,
      <<ESC, "[", "?", "7", "h">>,
      <<ESC, "[", "2", "A">> }

\* The text of a stream of such pieces: its characters outside sequences.
PlainText(stream) == SelectSeq(stream, LAMBDA c : c = "x")

RECURSIVE InsertedText(_)
\* The characters the widget calls insert, in order.
InsertedText(ops) ==
    IF ops = <<>> THEN <<>>
    ELSE (IF Head(ops).op = "insert" THEN Head(ops).text ELSE <<>>)
         \o InsertedText(Tail(ops))

\* C25: a chunk made of text and of sequences with an unrecognised final
\* byte (private-mode ones included), delivered whole, makes no callback
\* fail, leaves the attribute set alone, calls nothing but insert on the
\* widget and inserts exactly the chunk's text, with the current tags.
C25_UnknownSequencesConsumed ==
    [][(/\ ansi_pending = <<ansi_whole>>
        /\ ansi_whole \in SeqsUpTo(UnknownPieces, MaxPieces)
        /\ ansi_pending' = <<>>) =>
          /\ ~ansi_raised'
          /\ cur_tags' = cur_tags
          /\ \A k \in DOMAIN widget_ops' :
                 widget_ops'[k].op = "insert" /\ widget_ops'[k].tags = cur_tags
          /\ InsertedText(widget_ops') = PlainText(ansi_whole)]_vars

\* C26: every cursor call made on the widget names a column that is not
\* negative and a line that is not before the first line (line 1).
C26_CursorCoordinatesValid ==
    \A k \in DOMAIN widget_ops :
        /\ widget_ops[k].op = "mark_set" =>
               widget_ops[k].col >= 0 /\ widget_ops[k].line >= 1
        /\ widget_ops[k].op = "mark_set_col" => widget_ops[k].col >= 0

RECURSIVE SgrInOrder(_, _)
\* The codes applied one by one, in list order, each by its own meaning.
SgrInOrder(tags, codes) ==
    IF codes = <<>> THEN tags
    ELSE LET c == Head(codes)
             next ==
                 CASE c = 0 -> {}
                   [] c \in 30..37 \cup 90..97 ->
                        (tags \ FgTags) \cup {ansi_color_map[c]}
                   [] c \in 40..47 \cup 100..107 ->
                        (tags \ BgTags) \cup {ansi_color_map[c]}
                   [] c = 39 -> tags \ FgTags
                   [] c = 49 -> tags \ BgTags
                   [] c = 22 -> tags \ {"bold", "dim"}
                   [] c = 24 -> tags \ {"underline"}
                   [] c \in {1, 2, 4, 5, 7, 8} -> tags \cup {ansi_color_map[c]}
                   [] OTHER -> tags
         IN  SgrInOrder(next, Tail(codes))

\* C2: the attribute set after _handle_sgr_codes is the prior set with the
\* codes of the list applied one by one in order, also when codes follow a 0.
C2_SgrCodesInOrder ==
    sgr_call.op = "done" =>
        sgr_call.post = SgrInOrder(sgr_call.pre, sgr_call.codes)

(***************************************************************************)
(* Claims about the terminal session                                       *)
(***************************************************************************)
\* C3: when stop_terminal has returned, the session is Closed: running is
\* false, no channel is held, every channel that was opened has been closed,
\* and no pump thread of the session is alive.
C3_StopLeavesNoPump ==
    (t_caller.pc = "idle" /\ t_last.op = "stop") =>
        /\ ~t_running
        /\ t_channel = 0
        /\ t_closed = 1..t_opened
        /\ \A k \in 1..Len(t_threads) : t_threads[k].pc = "dead"

\* A sequence of numbers in which each is greater than the one before.
Increasing(seq) == \A i, j \in 1..Len(seq) : i < j => seq[i] < seq[j]

\* C18: the items written to the channel are written in the order in which
\* they were submitted, by send_input or through the input queue: none is
\* written before an earlier one, none twice.
C18_InputWrittenInOrder == Increasing(t_sent)

\* C19: the chunks passed to the output callback are passed in the order in
\* which channel.recv returned them, none twice, across starts, stops and
\* restarts of the session.
C19_OutputDeliveredInOrder == Increasing(t_delivered)

\* C20: when start_terminal has returned False, connected and running are
\* false, no channel is held, and no pump was spawned by the call: the
\* session has the two pumps of each successful start and no more.
C20_FailedStartLeavesNotRunning ==
    (t_caller.pc = "idle" /\ t_last = Returned("start", FALSE)) =>
        /\ ~t_connected
        /\ ~t_running
        /\ t_channel = 0
        /\ Len(t_threads) = 2 * t_opened

\* Witness of C20: a start issued while the session was Running has failed:
\* the channel of the earlier start is closed.
C20_Witness ==
    /\ t_caller.pc = "idle"
    /\ t_last = Returned("start", FALSE)
    /\ t_opened = 1
    /\ t_closed = {1}

\* The codes of a list all belong to the set S.
OnlyOf(codes, S) == \A i \in DOMAIN codes : codes[i] \in S

\* The colour tag a list of colour codes of one kind ends with.
LastColour(codes, default) ==
    IF codes[Len(codes)] = default THEN {}
    ELSE {ansi_color_map[codes[Len(codes)]]}

\* C23: after _handle_sgr_codes the tag set holds at most one foreground
\* and at most one background tag; a list of foreground codes and 39 leaves
\* every tag that is not a foreground tag alone and ends with the last
\* code's colour (none for 39), and likewise for background codes and 49.
C23_OneColourOfEachKind ==
    sgr_call.op = "done" =>
        LET pre == sgr_call.pre
            post == sgr_call.post
            codes == sgr_call.codes
        IN  /\ Cardinality(post \cap FgTags) <= 1
            /\ Cardinality(post \cap BgTags) <= 1
            /\ OnlyOf(codes, fg_colors \cup {39}) =>
                   /\ post \ FgTags = pre \ FgTags
                   /\ post \cap FgTags = LastColour(codes, 39)
            /\ OnlyOf(codes, bg_colors \cup {49}) =>
                   /\ post \ BgTags = pre \ BgTags
                   /\ post \cap BgTags = LastColour(codes, 49)

\* Witness of C23: a bright foreground code replaced red and left the
\* background and bold.
C23_Witness ==
    /\ sgr_call.op = "done"
    /\ sgr_call.pre = {"red", "bg_blue", "bold"}
    /\ sgr_call.codes = <<97>>
    /\ sgr_call.post = {"bright_white", "bg_blue", "bold"}

\* The tags a list of codes 22 and 24 removes.
RemovedBy(codes) ==
    (IF \E i \in DOMAIN codes : codes[i] = 22 THEN {"bold", "dim"} ELSE {})
    \cup (IF \E i \in DOMAIN codes : codes[i] = 24 THEN {"underline"} ELSE {})

\* C24: code 22 removes exactly bold and dim and code 24 exactly underline,
\* every other tag staying; after 1;32 and then 22 the set is green only.
C24_NormalRemovesBoldAndDim ==
    sgr_call.op = "done" =>
        /\ OnlyOf(sgr_call.codes, {22, 24}) =>
               sgr_call.post = sgr_call.pre \ RemovedBy(sgr_call.codes)
        /\ (sgr_call.pre = {} /\ sgr_call.codes = <<1, 32, 22>>) =>
               sgr_call.post = {"green"}

\* Witness of C24: 22 on a set with bold, dim, a colour and underline.
C24_Witness ==
    /\ sgr_call.op = "done"
    /\ sgr_call.pre = {"red", "bold", "dim", "underline"}
    /\ sgr_call.codes = <<22>>
    /\ sgr_call.post = {"red", "underline"}

\* C21: a send_input or resize_terminal call changes no state of the
\* session (flags, channel, pumps), whether the channel raises or not, and
\* on a session that is not Running it performs no channel operation.
C21_CallsOnStoppedSessionAreNoOps ==
    [][(t_submitted' # t_submitted \/ t_resized'.calls # t_resized.calls) =>
         /\ UNCHANGED <<t_channel, t_connected, t_running, t_threads,
                        t_closed, t_opened, t_caller, t_last>>
         /\ ~(t_connected /\ t_running /\ t_channel # 0) =>
                /\ t_sent' = t_sent
                /\ t_resized'.done = t_resized.done]_vars

\* Witness of C21: on a session that was started and stopped, send_input and
\* resize_terminal were both called and nothing reached a channel.
C21_Witness ==
    /\ t_opened = 1 /\ t_closed = {1} /\ ~t_connected
    /\ t_submitted = MaxItems /\ t_sent = <<>>
    /\ t_resized = [calls |-> 1, done |-> 0]

\* C22: when stop_terminal returns, running and connected are false and no
\* channel is held; a stop_terminal on a session that holds no channel
\* closes nothing, and close is never called on a channel closed before.
C22_StopIsIdempotent ==
    [][(t_caller.pc = "stop_join" /\ t_caller.op = "stop" /\ t_caller'.pc = "idle") =>
         /\ ~t_running' /\ ~t_connected' /\ t_channel' = 0
         /\ t_channel = 0 => t_closed' = t_closed
         /\ t_channel # 0 => t_channel \notin t_closed]_vars

\* Witness of C22: stop_terminal is in progress on a session that an
\* earlier stop has closed.
C22_Witness ==
    /\ t_caller.pc = "stop_join" /\ t_caller.op = "stop"
    /\ t_channel = 0 /\ t_opened = 1 /\ t_closed = {1}
    /\ t_last = Returned("stop", TRUE)

(***************************************************************************)
(* Claims about the session registry                                       *)
(***************************************************************************)
\* C10: the n-th create_terminal without a name returns "Terminal n", and
\* the counter equals the number of default names handed out: it never goes
\* back, so no default name is handed out twice, whatever was removed.
C10_DefaultNamesNeverReused ==
    /\ \A n \in 1..Len(reg_handed) : reg_handed[n] = TerminalName(n)
    /\ terminal_counter = Len(reg_handed)

\* Witness of C10: three default names were handed out, "Terminal 2" was
\* removed before the third create, which returned "Terminal 3".
C10_Witness ==
    /\ Len(reg_handed) = 3
    /\ reg_last = [op |-> "create", name |-> TerminalName(3), ret |-> TRUE]
    /\ TerminalName(2) \notin DOMAIN reg_terminals
    /\ TerminalName(1) \in DOMAIN reg_terminals

\* C11: every session that was started and not stopped is still registered
\* under some id: create_terminal never puts a new session in the place of a
\* registered one that is still running.
C11_RunningIsRegistered ==
    \A o \in DOMAIN reg_objs :
        reg_objs[o] = "running" =>
            \E n \in DOMAIN reg_terminals : reg_terminals[n] = o

\* C12: a session whose entry leaves the registry in a remove_terminal or
\* close_all_terminals step is stopped by that step; remove_terminal returns
\* False exactly for an unknown id and then changes nothing; after
\* close_all_terminals the registry is empty.
C12_StoppedBeforeRemoval ==
    [][reg_last'.op \in {"remove", "close_all"} =>
         /\ \A n \in DOMAIN reg_terminals :
                n \notin DOMAIN reg_terminals' =>
                    reg_objs'[reg_terminals[n]] = "stopped"
         /\ reg_last'.op = "remove" =>
                /\ reg_last'.ret = (reg_last'.name \in DOMAIN reg_terminals)
                /\ reg_last'.name \notin DOMAIN reg_terminals'
                /\ ~reg_last'.ret =>
                       UNCHANGED <<reg_terminals, reg_objs, terminal_counter>>
         /\ reg_last'.op = "close_all" => DOMAIN reg_terminals' = {}]_vars

\* Witness of C12: remove_terminal has just taken a running session out of
\* the registry, another session is still registered and running.
C12_Witness ==
    /\ reg_last.op = "remove" /\ reg_last.ret
    /\ \E o \in DOMAIN reg_objs : reg_objs[o] = "stopped"
    /\ \E n \in DOMAIN reg_terminals : reg_objs[reg_terminals[n]] = "running"

(***************************************************************************)
(* Claims about the profile store                                          *)
(***************************************************************************)
\* C4: as long as the file was written only by the vault's own successful
\* saves and deletes, list_profiles returns the names saved and not deleted
\* since: each of them, none else, none twice.
C4_ListIsSavedNotDeleted ==
    vault_clean =>
        LET names == ListProfiles(vault_file).value
        IN  /\ {names[k] : k \in 1..Len(names)} = vault_saved
            /\ \A i, k \in 1..Len(names) : names[i] = names[k] => i = k

\* Witness of C4: a delete succeeded while another saved name stays listed.
C4_Witness ==
    /\ vault_clean
    /\ vault_last.op = "delete"
    /\ vault_last.ret = TRUE
    /\ vault_saved # {}

\* C5: right after a save_profile that returned True, get_profile of the
\* name returns the saved name, host, username, port and description and the
\* plaintext password, while the stored password is a base64 text of a Fernet
\* token and not the plaintext.
C5_SaveThenGetRoundTrip ==
    (vault_last.op = "save" /\ vault_last.ret = TRUE) =>
        LET got == GetProfile(vault_file, vault_last.name)
            input == vault_last.input
            stored == DictGet(LoadProfiles(vault_file).value, vault_last.name)
        IN  /\ ~got.raised
            /\ got.value.found
            /\ got.value.profile.password = input.password
            /\ got.value.profile.name = vault_last.name
            /\ got.value.profile.host = input.host
            /\ got.value.profile.username = input.username
            /\ got.value.profile.port = input.port
            /\ got.value.profile.description = input.description
            /\ stored.password # input.password
            /\ stored.password.kind = "b64"
            /\ stored.password.of.kind = "fernet"

\* Witness of C5: a save returned True for a second profile of the vault.
C5_Witness ==
    /\ vault_last.op = "save"
    /\ vault_last.ret = TRUE
    /\ vault_last.input.password = Str("s2")
    /\ Len(LoadProfiles(vault_file).value) = 2

\* C6: while the data file's ciphertext is corrupted, load_profiles returns
\* the empty mapping, get_profile returns None and list_profiles returns the
\* empty list, and a call of any of them does not raise.
C6_CorruptFileLoadsEmpty ==
    (vault_file.kind = "fernet" /\ ~vault_file.intact) =>
        /\ LoadProfiles(vault_file) = [raised |-> FALSE, value |-> <<>>]
        /\ ListProfiles(vault_file) = [raised |-> FALSE, value |-> <<>>]
        /\ \A name \in VaultNames :
             GetProfile(vault_file, name) = [raised |-> FALSE, value |-> NotFound]
        /\ vault_last.op \in {"load", "get", "list"} => ~vault_last.raised
        /\ vault_last.op \in {"load", "list"} => vault_last.ret = <<>>
        /\ vault_last.op = "get" => vault_last.ret = NotFound

\* Witness of C6: get_profile of a saved name was called on a corrupted file.
C6_Witness ==
    /\ vault_file.kind = "fernet"
    /\ ~vault_file.intact
    /\ vault_last.op = "get"
    /\ vault_last.name \in vault_saved

\* C13: the backing file is rewritten atomically: whatever happens to a
\* write of save_profile, delete_profile or mark_profile_used, the file is
\* never left empty, truncated or partial.
C13_FileNeverTruncated == vault_file # Truncated

BadEntries(profiles) ==
    {k \in 1..Len(profiles) : ~DecryptPassword(profiles[k].password).ok}

\* C16: when the stored password of an entry fails to decrypt, get_profile
\* of that entry returns None and does not raise, get_profile of every other
\* entry returns that entry with its decrypted password, list_profiles
\* returns all the names, and a get_profile call leaves the file as it was.
C16_BadEntryIsIsolated ==
    /\ [](LET profiles == LoadProfiles(vault_file).value
          IN  BadEntries(profiles) # {} =>
                /\ \A k \in 1..Len(profiles) :
                     LET got == GetProfile(vault_file, profiles[k].name)
                     IN  IF k \in BadEntries(profiles)
                         THEN got = [raised |-> FALSE, value |-> NotFound]
                         ELSE /\ ~got.raised
                              /\ got.value.found
                              /\ got.value.profile.password.kind = "str"
                              /\ got.value.profile.host = profiles[k].host
                /\ ListProfiles(vault_file) =
                      [raised |-> FALSE, value |-> DictKeys(profiles)]
                /\ vault_last.op = "get" =>
                      /\ ~vault_last.raised
                      /\ vault_last.ret = GetProfile(vault_file, vault_last.name).value)
    /\ [][vault_last'.op = "get" => vault_file' = vault_file]_vars

\* Witness of C16: get_profile was called on an entry whose password does
\* not decrypt, while the vault holds another entry that is intact.
C16_Witness ==
    LET profiles == LoadProfiles(vault_file).value
    IN  /\ vault_last.op = "get"
        /\ Len(profiles) = 2
        /\ Cardinality(BadEntries(profiles)) = 1
        /\ DictHas(profiles, vault_last.name)
        /\ ~DecryptPassword(DictGet(profiles, vault_last.name).password).ok

\* What the call of thread t, once it returned True, leaves in the stored
\* mapping if no other call undoes it.
ConcEffect(t, profiles) ==
    LET call == vault_threads[t]
    IN  IF call.op = "delete" THEN ~DictHas(profiles, call.name)
        ELSE /\ DictHas(profiles, call.name)
             /\ IF call.op = "save"
                THEN DictGet(profiles, call.name).host = call.input.host
                ELSE DictGet(profiles, call.name).last_used = vault_now

\* C14: when two calls of save_profile, delete_profile or mark_profile_used
\* on different names, made by two threads at the same time, have both
\* returned True, the stored mapping holds the effect of both.
C14_ConcurrentCallsBothTakeEffect ==
    (/\ \A t \in ConcThreads : vault_threads[t].pc = "done" /\ vault_threads[t].ret
     /\ vault_threads[1].name # vault_threads[2].name) =>
        \A t \in ConcThreads :
            ConcEffect(t, LoadProfiles(vault_file).value)

\* C17: right after a save_profile that returned True, every name saved by
\* an earlier successful call and not deleted since is still stored, also
\* when the file could not be read or decrypted during the call.
C17_SaveKeepsOtherProfiles ==
    (vault_last.op = "save" /\ vault_last.ret = TRUE) =>
        \A name \in vault_saved :
            DictHas(LoadProfiles(vault_file).value, name)

(***************************************************************************)
(* Claims about the transfer engine                                        *)
(***************************************************************************)
TopLevelCalls ==
    {"upload_file", "download_file", "upload_directory", "download_directory"}

\* C7: every top-level transfer call ends by returning True or False; no
\* failure (a missing local file, a failing remote stat, open or mkdir, an
\* error in the chunk loop) leaves the call as an exception.
C7_TransfersNeverRaise ==
    xfer_last.op \in TopLevelCalls => xfer_last.ret \in {RetTrue, RetFalse}

RECURSIVE CountFiles(_)
\* The number of files of a tree.
CountFiles(tree) ==
    LET RECURSIVE Sum(_)
        Sum(d) == IF d > Len(tree.dirs) THEN 0
                  ELSE CountFiles(tree.dirs[d]) + Sum(d + 1)
    IN  Len(tree.files) + Sum(1)

\* C8: upload_directory starts one upload per file and none twice; no upload
\* is started after one that did not return True; when it returns True
\* exactly K uploads were started, all successful; when an upload fails it
\* returns False.
C8_UploadDirectoryFailsFast ==
    LET K == CountFiles(xfer_dir.tree)
        n == Len(xfer_uploads)
    IN  /\ n <= K
        /\ \A a, b \in 1..n : xfer_uploads[a].path = xfer_uploads[b].path => a = b
        /\ \A a \in 1..(n - 1) : xfer_uploads[a].ret = RetTrue
        /\ (xfer_dir.pc = "done" /\ xfer_dir.ret = RetTrue) =>
              /\ n = K
              /\ \A a \in 1..n : xfer_uploads[a].ret = RetTrue
        /\ (xfer_dir.pc = "done" /\ \E a \in 1..n : xfer_uploads[a].ret # RetTrue)
              => xfer_dir.ret = RetFalse

\* Witness of C8: the second of three files failed; upload_directory has
\* returned False and the third upload was never started.
C8_Witness ==
    /\ xfer_dir.pc = "done"
    /\ xfer_dir.ret = RetFalse
    /\ CountFiles(xfer_dir.tree) = 3
    /\ Len(xfer_uploads) = 2
    /\ xfer_uploads[1].ret = RetTrue
    /\ xfer_uploads[2].ret = RetFalse

\* C9: when upload_directory has returned True, the progress callback was
\* invoked at least once for every file of the tree, whatever its size.
C9_ProgressOncePerFile ==
    (xfer_dir.pc = "done" /\ xfer_dir.ret = RetTrue) =>
        \A a \in 1..Len(xfer_uploads) : xfer_uploads[a].progress >= 1

\* The bytes written to the destination by the first k chunks.
WrittenAfter(chunks, k) == SumSeq(SubSeq(chunks, 1, k))

\* C27: between two iterations of the chunk loop and after it, the progress
\* callback has been invoked once per chunk written, the k-th time with the
\* bytes written by the first k chunks and with the task's total size; the
\* byte counts rise strictly and no chunk exceeds 8192 bytes.
C27_ProgressAfterEveryChunk ==
    xfer_task.pc \notin {"check", "update"} =>
        /\ Len(xfer_task.calls) = Len(xfer_task.chunks)
        /\ \A k \in DOMAIN xfer_task.calls :
               /\ xfer_task.calls[k].bytesSoFar = WrittenAfter(xfer_task.chunks, k)
               /\ xfer_task.calls[k].totalBytes = xfer_task.total
               /\ k > 1 => xfer_task.calls[k].bytesSoFar
                              > xfer_task.calls[k - 1].bytesSoFar
        /\ \A k \in DOMAIN xfer_task.chunks : xfer_task.chunks[k] <= chunk_size

\* C28: every entry of active_transfers belongs to a transfer in flight, and
\* the table is empty when none is; the entry is in the table when the call
\* has begun, and it is not once the call has returned, True or False, or
\* once cancel_transfer has returned True.
C28_EntryOnlyWhileInFlight ==
    /\ [](/\ \A id \in DOMAIN active_transfers :
                (InFlight /\ xfer_task.id = id) \/ xfer_other = id
          /\ (~InFlight /\ xfer_other = NoId) => active_transfers = EmptyTable)
    /\ [][/\ (~InFlight /\ InFlight') =>
                xfer_task'.id \in DOMAIN active_transfers'
          /\ (InFlight /\ ~InFlight') =>
                xfer_task.id \notin DOMAIN active_transfers'
          /\ (xfer_cancel.pc = "del" /\ xfer_cancel'.ret = RetTrue) =>
                xfer_cancel.id \notin DOMAIN active_transfers']_vars

\* Witness of C28: a call whose chunk loop failed has returned False and a
\* cancel_transfer has returned True; the table is empty.
C28_Witness ==
    /\ xfer_task.pc = "done" /\ xfer_task.fault = "io"
    /\ xfer_task.ret = RetFalse
    /\ xfer_cancel = [pc |-> "idle", id |-> xfer_task.id, ret |-> RetTrue]
    /\ xfer_other = NoId
    /\ active_transfers = EmptyTable

\* C29: cancel_transfer changes nothing but the table, removes nothing but
\* the id it is given, which is gone when it returns True; the chunk loop puts no
\* entry in the table; and a transfer none of whose file operations fails
\* and whose id was cancelled is not interrupted: it ends with True, having
\* copied until the source gave no more or total size was reached.
C29_CancelLeavesLoopRunning ==
    /\ [][/\ xfer_cancel' # xfer_cancel =>
                /\ xfer_task' = xfer_task
                /\ xfer_cancel'.ret = RetTrue =>
                       xfer_cancel'.id \notin DOMAIN active_transfers'
                /\ DOMAIN active_transfers' \in
                       {DOMAIN active_transfers,
                        DOMAIN active_transfers \ {xfer_cancel'.id}}
          /\ (InFlight /\ xfer_other' = xfer_other) =>
                DOMAIN active_transfers' \subseteq DOMAIN active_transfers]_vars
    /\ []((/\ xfer_task.pc = "done" /\ xfer_task.fault = "none"
            /\ xfer_cancel = [pc |-> "idle", id |-> xfer_task.id, ret |-> RetTrue]
            /\ xfer_other = NoId) =>
             (/\ xfer_task.ret = RetTrue
              /\ SumSeq(xfer_task.chunks) =
                     TransferWithProgress(xfer_task.total,
                                          xfer_task.avail).transferred))

\* C30: a call that returned True wrote exactly total size bytes to the
\* destination.
C30_TrueMeansWholeFileCopied ==
    (xfer_task.pc = "done" /\ xfer_task.ret = RetTrue) =>
        SumSeq(xfer_task.chunks) = xfer_task.total

(***************************************************************************)
(* Further claims about the terminal session                               *)
(***************************************************************************)
\* The pump threads of the session that are alive.
LivePumps == {k \in 1..Len(t_threads) : t_threads[k].pc # "dead"}

\* C31: at most two pump threads of the session are alive at any time, and
\* a Running session whose owner is not inside start_terminal or
\* stop_terminal has one live output pump and one live input pump.
C31_AtMostTwoLivePumps ==
    /\ Cardinality(LivePumps) <= 2
    /\ (t_caller.pc = "idle" /\ t_running /\ t_connected) =>
          /\ Cardinality({k \in LivePumps : t_threads[k].kind = "out"}) = 1
          /\ Cardinality({k \in LivePumps : t_threads[k].kind = "in"}) = 1

\* The output pumps of the session that are alive.
LiveOutputPumps == {k \in LivePumps : t_threads[k].kind = "out"}

\* C32: once the remote end has closed the channel of a Running session,
\* either the session is stopped or every output pump comes to an end.
C32_PumpEndsOnClosedChannel ==
    (t_channel # 0 /\ t_channel \in t_eof /\ t_running /\ t_connected)
        ~> (~t_running \/ LiveOutputPumps = {})

\* C33: an iteration of the output pump that ends the pump with an error of
\* the channel leaves the session not Running: running and connected are
\* false.
C33_ChannelErrorStopsSession ==
    [][\A k \in 1..Len(t_threads) :
          (/\ t_threads[k].pc = "poll"
           /\ t_threads'[k].pc = "dead"
           /\ t_channel # 0) => (~t_running' /\ ~t_connected')]_vars

\* C36: every chunk channel.recv has returned is passed to the output
\* callback once the iteration that read it is over.
C36_EveryChunkIsDelivered ==
    \A n \in 1..t_recv :
        \/ \E k \in 1..Len(t_threads) :
              t_threads[k].pc = "recvd" /\ t_threads[k].data = n
        \/ \E i \in 1..Len(t_delivered) : t_delivered[i] = n

\* C38: an output pump inside the consumer's callback does not end there
\* while the session is Running: it goes on to its next iteration.
C38_CallbackErrorKeepsPump ==
    [][\A k \in 1..Len(t_threads) :
          (/\ t_threads[k].pc = "callback"
           /\ t_running /\ t_connected /\ t_channel # 0
           /\ t_running' /\ t_connected' /\ t_channel' # 0)
             => t_threads'[k].pc # "dead"]_vars

(***************************************************************************)
(* Claims about _ensure_remote_directory                                   *)
(***************************************************************************)
\* C34: the mkdir calls of one _ensure_remote_directory go from the topmost
\* missing directory downwards, one level at a time; a mkdir that fails is
\* ignored exactly when the path is then a directory, and otherwise (stat
\* fails, or the path is something else) ends the call with the error.
C34_MkdirParentFirstAndRaceTolerant ==
    mk_call.pc = "done" =>
        LET log == mk_call.res.log
        IN  /\ \A i \in 1..Len(log) - 1 : log[i + 1].level = log[i].level + 1
            /\ \A i \in 1..Len(log) :
                  /\ log[i].made => ~log[i].raised
                  /\ ~log[i].made => (log[i].raised <=> log[i].found # "dir")
            /\ mk_call.res.raised <=> \E i \in 1..Len(log) : log[i].raised

(***************************************************************************)
(* Claims about the decoding of the output                                 *)
(***************************************************************************)
\* C35: once every byte of the channel has been read, the text handed to
\* the output callback, chunk after chunk, is the decoding of the whole
\* byte stream: a character split over two reads is delivered as that
\* character.
C35_ChunkedDecodingEqualsWhole ==
    dec_call.pos = Len(dec_call.stream) =>
        dec_call.out = DecodeReplace(dec_call.stream)

\* C37: two transfers in flight at the same time never have the same task
\* id, so neither can overwrite or remove the other's table entry.
C37_IdsOfConcurrentTransfersDiffer ==
    (InFlight /\ xfer_other # NoId) => xfer_other # xfer_task.id

(***************************************************************************)
(* Claims about the terminal panel                                         *)
(***************************************************************************)
\* C39: no scheduled update_text runs against a closed terminal: none of
\* them subscripts terminal_widgets or terminal_states with a name that has
\* been deleted.
C39_UpdateNeverRunsOnClosedTerminal == ui_log.raised = {}

(***************************************************************************)
(* Claims about the network scan                                           *)
(***************************************************************************)
\* C40: once cancel_event is set no further callback is delivered and no
\* further connection attempt is started, in the network being scanned or
\* in a later one; never more than max_workers attempts are in flight.
C40_CancelStopsTheScan ==
    /\ [](scan.flight <= MaxWorkers)
    /\ [][scan.cancel => /\ scan'.started = scan.started
                         /\ scan'.callbacks = scan.callbacks]_vars

=============================================================================
